---- MODULE Spec2Model ----
(***************************************************************************)
(* Model of dlpx/virtualization/platform/_plugin.py: the three operation   *)
(* registries (DiscoveryOperations, LinkedOperations, VirtualOperations),  *)
(* their registration decorators and their _internal_* dispatch wrappers.  *)
(*                                                                         *)
(* A registry is a record of *_impl attributes.  A behaviour is a sequence *)
(* of blocking calls made by the runtime, one at a time: a call runs to    *)
(* completion and leaves its outcome in `last`; runtime_return consumes    *)
(* the outcome before the next call is made.                               *)
(***************************************************************************)
EXTENDS Integers, Sequences, FiniteSets, TLC

\* ------------------------------------------------------------------------
\* Bounds of the model
\* ------------------------------------------------------------------------
MaxBound == 1      \* at most this many attributes hold an implementation
MaxMounts == 3     \* longest mounts list a mount_specification returns
MaxList == 2       \* longest list a discovery implementation returns

\* ------------------------------------------------------------------------
\* Python values
\* ------------------------------------------------------------------------
\* None, as an object (every object of the model is a record).
None == [cls |-> "NoneType"]

\* Implementations a plugin author may register.  f and g are plain
\* functions; z is a callable object whose boolean test is false
\* (its class defines __bool__ or __len__).
f == [cls |-> "function", name |-> "f"]
g == [cls |-> "function", name |-> "g"]
z == [cls |-> "callable", name |-> "z"]
Callbacks == {f, g, z}
FalsyCallbacks == {z}

\* bool(v) of an object: None and a falsy callable are false.
Bool(v) == v # None /\ v \notin FalsyCallbacks

\* bool(s) of a string (shared_path): the empty string is false.  A
\* shared_path of None tests like "" everywhere it is used and is
\* represented by "".
BoolStr(s) == s # ""

\* Exceptions, by type and (for the RuntimeErrors of this module) message.
AlreadyDefined == [type |-> "RuntimeError", msg |-> "has already been defined"]
NotDefined == [type |-> "RuntimeError", msg |-> "has not been defined"]
ExactlyOneMount == [type |-> "RuntimeError", msg |-> "Exactly one mount must be provided"]
AssertionError == [type |-> "AssertionError", msg |-> "not single_mount.shared_path"]
AttributeError == [type |-> "AttributeError", msg |-> "NoneType has no attribute"]
ValueError == [type |-> "ValueError", msg |-> "No JSON object could be decoded"]
CallbackError == [type |-> "PluginError", msg |-> "raised by the implementation"]
TypeError == [type |-> "TypeError", msg |-> "'NoneType' object is not callable"]

\* ------------------------------------------------------------------------
\* Plugin defined objects and their JSON payloads
\* ------------------------------------------------------------------------
\* A dict is a function from keys to values; a JSON text is the sequence of
\* its tokens.
\* The dicts of the model have exactly one key.
\* json.dumps of a dict.
json_dumps(d) ==
    LET k == CHOOSE x \in DOMAIN d : TRUE
    IN <<"{", k, ":", d[k], "}">>

\* json.loads: the dict a well-formed text denotes, or a raised ValueError.
json_loads(t) ==
    IF Len(t) = 5 /\ t[1] = "{" /\ t[3] = ":" /\ t[5] = "}"
    THEN [ok |-> TRUE, value |-> (t[2] :> t[4])]
    ELSE [ok |-> FALSE, value |-> ValueError]

\* A text json.loads rejects (truncated object).
Malformed == <<"{", "version", ":">>

\* The generated definition classes: from_dict builds an object of the class
\* from a dict, to_dict exports the object's dict.
from_dict(cls, d) == [cls |-> cls, fields |-> d]
to_dict(obj) == obj.fields

\* cls.from_dict(json.loads(text)): the object, or the raised error.
Unmarshal(cls, text) ==
    LET r == json_loads(text)
    IN IF r.ok THEN [ok |-> TRUE, value |-> from_dict(cls, r.value)] ELSE r

\* parameters.json = json.dumps(obj.to_dict()); None has no to_dict.
Marshal(obj) ==
    IF obj = None THEN [ok |-> FALSE, value |-> AttributeError]
    ELSE [ok |-> TRUE, value |-> json_dumps(to_dict(obj))]

\* The first failed step of a sequence of unmarshalling steps, in order.
RECURSIVE FirstFailure(_)
FirstFailure(steps) ==
    IF steps = <<>> THEN None
    ELSE IF ~ Head(steps).ok THEN Head(steps).value
    ELSE FirstFailure(Tail(steps))

\* ------------------------------------------------------------------------
\* Requests built by the runtime
\* ------------------------------------------------------------------------
J(d) == json_dumps(d)

HostA == [name |-> "host-a", reference |-> "HOST-1",
          binary_path |-> "/bin/a", scratch_path |-> "/scratch/a"]
HostB == [name |-> "host-b", reference |-> "HOST-2",
          binary_path |-> "/bin/b", scratch_path |-> "/scratch/b"]
EnvA == [name |-> "env-a", reference |-> "ENV-1", host |-> HostA]
EnvB == [name |-> "env-b", reference |-> "ENV-2", host |-> HostB]

\* The data a request is built from: the entity (guid, connection), the
\* four plugin defined payloads and, for staged sources, the staged mount.
Seed(guid, conn, src, repo, cfg, snap, env, path) ==
    [guid |-> guid, connection |-> conn, source |-> src, repository |-> repo,
     source_config |-> cfg, snapshot |-> snap,
     staged_mount |-> [remote_environment |-> env, mount_path |-> path,
                       shared_path |-> ""]]

Seeds ==
    { Seed("guid-1", "conn-X", J([version |-> "1.0"]), J([name |-> "repo"]),
           J([path |-> "/cfg"]), J([id |-> "snap"]), EnvA, "/stage/1"),
      Seed("guid-2", "conn-Y", J([id |-> "snap"]), J([path |-> "/cfg"]),
           J([name |-> "repo"]), J([version |-> "2.0"]), EnvB, "/stage/2"),
      Seed("guid-1", "conn-X", Malformed, J([name |-> "repo"]),
           J([path |-> "/cfg"]), J([id |-> "snap"]), EnvA, "/stage/1"),
      Seed("guid-1", "conn-X", J([version |-> "1.0"]), Malformed,
           J([path |-> "/cfg"]), J([id |-> "snap"]), EnvA, "/stage/1"),
      Seed("guid-1", "conn-X", J([version |-> "1.0"]), J([name |-> "repo"]),
           Malformed, Malformed, EnvA, "/stage/1") }

PluginDefinedObject(text) == [parameters |-> text]

direct_source_of(s) ==
    [linked_source |-> [guid |-> s.guid, parameters |-> s.source],
     connection |-> s.connection]
staged_source_of(s) ==
    [linked_source |-> [guid |-> s.guid, parameters |-> s.source],
     connection |-> s.connection, staged_mount |-> s.staged_mount]
virtual_source_of(s) ==
    [guid |-> s.guid, connection |-> s.connection, parameters |-> s.source]

RepositoryDiscoveryRequests == {[source_connection |-> s.connection] : s \in Seeds}
SourceConfigDiscoveryRequests ==
    {[source_connection |-> s.connection,
      repository |-> PluginDefinedObject(s.repository)] : s \in Seeds}
\* DirectPreSnapshotRequest, DirectPostSnapshotRequest
DirectRequests ==
    {[direct_source |-> direct_source_of(s),
      repository |-> PluginDefinedObject(s.repository),
      source_config |-> PluginDefinedObject(s.source_config)] : s \in Seeds}
\* StagedPreSnapshotRequest, StagedPostSnapshotRequest, StartStagingRequest,
\* StopStagingRequest, StagedStatusRequest, StagedWorkerRequest
StagedRequests ==
    {[staged_source |-> staged_source_of(s),
      repository |-> PluginDefinedObject(s.repository),
      source_config |-> PluginDefinedObject(s.source_config)] : s \in Seeds}
StagedMountSpecRequests ==
    {[staged_source |-> staged_source_of(s),
      repository |-> PluginDefinedObject(s.repository)] : s \in Seeds}
ConfigureRequests ==
    {[virtual_source |-> virtual_source_of(s),
      repository |-> PluginDefinedObject(s.repository),
      snapshot |-> PluginDefinedObject(s.snapshot)] : s \in Seeds}
ReconfigureRequests ==
    {[virtual_source |-> virtual_source_of(s),
      snapshot |-> PluginDefinedObject(s.snapshot),
      source_config |-> PluginDefinedObject(s.source_config)] : s \in Seeds}
\* UnconfigureRequest, StartRequest, StopRequest, VirtualPreSnapshotRequest,
\* VirtualPostSnapshotRequest, VirtualStatusRequest, InitializeRequest
VirtualRequests ==
    {[virtual_source |-> virtual_source_of(s),
      repository |-> PluginDefinedObject(s.repository),
      source_config |-> PluginDefinedObject(s.source_config)] : s \in Seeds}
VirtualMountSpecRequests ==
    {[virtual_source |-> virtual_source_of(s),
      repository |-> PluginDefinedObject(s.repository)] : s \in Seeds}

\* The JSON texts a request carries.
Payloads(request) ==
    {request[k].parameters :
        k \in DOMAIN request \cap {"repository", "source_config", "snapshot"}}
    \cup {request[k].parameters : k \in DOMAIN request \cap {"virtual_source"}}
    \cup {request[k].linked_source.parameters :
            k \in DOMAIN request \cap {"direct_source", "staged_source"}}

\* Every JSON text of the request is well formed.
RequestParses(request) == \A t \in Payloads(request) : json_loads(t).ok

\* ------------------------------------------------------------------------
\* Platform value classes handed to the implementations
\* ------------------------------------------------------------------------
DirectSource(guid, connection, parameters) ==
    [cls |-> "DirectSource", guid |-> guid, connection |-> connection,
     parameters |-> parameters]
Mount(remote_environment, mount_path, shared_path) ==
    [remote_environment |-> remote_environment, mount_path |-> mount_path,
     shared_path |-> shared_path]
StagedSource(guid, connection, parameters, mount) ==
    [cls |-> "StagedSource", guid |-> guid, connection |-> connection,
     parameters |-> parameters, mount |-> mount]
VirtualSource(guid, connection, parameters) ==
    [cls |-> "VirtualSource", guid |-> guid, connection |-> connection,
     parameters |-> parameters]

\* Status enumeration returned by status implementations (status.value is
\* written into the response) and the schema's ACTIVE constants.
StatusACTIVE == [cls |-> "Status", value |-> "ACTIVE"]
StatusINACTIVE == [cls |-> "Status", value |-> "INACTIVE"]
StagedStatusResult_ACTIVE == "ACTIVE"
VirtualStatusResponse_ACTIVE == "ACTIVE"

\* ------------------------------------------------------------------------
\* What an implementation may do when it is called: return a value or raise
\* ------------------------------------------------------------------------
Ret(v) == [raise |-> FALSE, value |-> v]
Raises == [raise |-> TRUE, error |-> CallbackError]

Junk == [cls |-> "object"]
\* Implementations whose result the wrapper ignores.
VoidResults == {Ret(None), Ret(Junk), Raises}

\* Implementations returning one definition object.
DefinitionResults(cls) ==
    {Ret(from_dict(cls, d)) : d \in {[version |-> "1.0"], [id |-> "snap"]}}
        \cup {Ret(None), Raises}

\* All sequences over S of length at most n.
RECURSIVE SeqsUpTo(_, _)
SeqsUpTo(S, n) ==
    IF n = 0 THEN {<<>>}
    ELSE LET shorter == SeqsUpTo(S, n - 1)
         IN shorter \cup {Append(q, x) : q \in shorter, x \in S}

\* Discovery implementations return a list of definition objects.
ListResults(cls) ==
    {Ret(l) : l \in SeqsUpTo({from_dict(cls, [name |-> "repo"]),
                              from_dict(cls, [path |-> "/cfg"])}, MaxList)}
        \cup {Raises}

StatusResults == {Ret(StatusACTIVE), Ret(StatusINACTIVE), Ret(None), Raises}

\* Mounts and mount specifications an implementation may return.
MountA == Mount(EnvA, "/mnt/a", "")
MountB == Mount(EnvB, "/mnt/b", "")
MountShared == Mount(EnvA, "/mnt/c", "/shared")
Mounts == {MountA, MountB, MountShared}
OwnershipSpecs == {None, [uid |-> 1001, gid |-> 2002]}
MountSpecification(mounts, ownership_specification) ==
    [mounts |-> mounts, ownership_specification |-> ownership_specification]
MountSpecResults ==
    {Ret(MountSpecification(ms, os)) :
        ms \in SeqsUpTo(Mounts, MaxMounts), os \in OwnershipSpecs}
        \cup {Ret(None), Raises}

\* ------------------------------------------------------------------------
\* State
\* ------------------------------------------------------------------------
VARIABLES discovery, linked, virtual, last, threads
vars == <<discovery, linked, virtual, last, threads>>

\* Outcome of a call: the wrapper or decorator that ran, its argument, the
\* implementation calls it made, and either the exception it raised or the
\* value it returned.
Outcome(kind, op, request, calls, raised, response) ==
    [kind |-> kind, op |-> op, request |-> request, calls |-> calls,
     raised |-> raised, response |-> response]
Idle == Outcome("idle", "", None, <<>>, None, None)

\* One call of an implementation with keyword arguments, and what the
\* implementation did (returned a value or raised).
Call(impl, kwargs, result) == [impl |-> impl, kwargs |-> kwargs, result |-> result]

\* DiscoveryOperations.__init__, LinkedOperations.__init__,
\* VirtualOperations.__init__ (run by Plugin.__init__)
DiscoveryOperations ==
    [repository_impl |-> None, source_config_impl |-> None]
LinkedOperations ==
    [pre_snapshot_impl |-> None, post_snapshot_impl |-> None,
     start_staging_impl |-> None, stop_staging_impl |-> None,
     status_impl |-> None, worker_impl |-> None,
     mount_specification_impl |-> None]
VirtualOperations ==
    [configure_impl |-> None, unconfigure_impl |-> None,
     reconfigure_impl |-> None, start_impl |-> None, stop_impl |-> None,
     pre_snapshot_impl |-> None, post_snapshot_impl |-> None,
     status_impl |-> None, initialize_impl |-> None,
     mount_specification_impl |-> None]

\* The threads on which the runtime may have wrappers running at the same
\* time, and a thread that runs no wrapper.
Threads == {"t1", "t2"}
ThreadIdle ==
    [pc |-> "idle", op |-> "", request |-> None, kwargs |-> None,
     calls |-> <<>>, outcome |-> None]
NoThreads == [t \in Threads |-> ThreadIdle]

\* Plugin.__init__
Init ==
    /\ discovery = DiscoveryOperations
    /\ linked = LinkedOperations
    /\ virtual = VirtualOperations
    /\ last = Idle
    /\ threads = NoThreads

\* Number of attributes of a registry that hold an implementation.
NumSet(reg) == Cardinality({a \in DOMAIN reg : reg[a] # None})
NumBound == NumSet(discovery) + NumSet(linked) + NumSet(virtual)

\* ------------------------------------------------------------------------
\* Registration decorators
\* ------------------------------------------------------------------------
\* decorator returning a new function wrapped around impl instead of impl.
decorator_ReturnsWrapper(reg, op, attr, impl) ==
    IF Bool(reg[attr])
    THEN [reg |-> reg,
          out |-> Outcome("register", op, impl, <<>>, AlreadyDefined, None)]
    ELSE [reg |-> [reg EXCEPT ![attr] = impl],
          out |-> Outcome("register", op, impl, <<>>, None,
                          [cls |-> "function", name |-> "wrapper"])]

\* Body shared by every <operation>_decorator(impl) of a registry reg whose
\* attribute is attr: the new registry and the outcome of the call.
decorator(reg, op, attr, impl) ==
    IF Bool(reg[attr])
    THEN [reg |-> reg,
          out |-> Outcome("register", op, impl, <<>>, AlreadyDefined, None)]
    ELSE [reg |-> [reg EXCEPT ![attr] = impl],
          out |-> Outcome("register", op, impl, <<>>, None, impl)]

\* The model lets an unset attribute be set only while fewer than MaxBound
\* attributes are set.
MayRegister(reg, attr) == reg[attr] # None \/ NumBound < MaxBound

discovery_decorator(op, attr) ==
    /\ last.kind = "idle"
    /\ MayRegister(discovery, attr)
    /\ \E impl \in Callbacks :
         LET r == decorator(discovery, op, attr, impl)
         IN /\ discovery' = r.reg
            /\ last' = r.out
    /\ UNCHANGED <<linked, virtual, threads>>

\* linked_decorator over a table of attributes shared with the virtual
\* registry: an attribute of the same name is assigned there as well.
linked_decorator_SharedSlots(op, attr) ==
    /\ last.kind = "idle"
    /\ MayRegister(linked, attr)
    /\ \E impl \in Callbacks :
         LET r == decorator(linked, op, attr, impl)
         IN /\ linked' = r.reg
            /\ last' = r.out
            /\ virtual' = IF attr \in DOMAIN virtual
                          THEN [virtual EXCEPT ![attr] = r.reg[attr]]
                          ELSE virtual
    /\ UNCHANGED <<discovery, threads>>

linked_decorator(op, attr) ==
    /\ last.kind = "idle"
    /\ MayRegister(linked, attr)
    /\ \E impl \in Callbacks :
         LET r == decorator(linked, op, attr, impl)
         IN /\ linked' = r.reg
            /\ last' = r.out
    /\ UNCHANGED <<discovery, virtual, threads>>

virtual_decorator(op, attr) ==
    /\ last.kind = "idle"
    /\ MayRegister(virtual, attr)
    /\ \E impl \in Callbacks :
         LET r == decorator(virtual, op, attr, impl)
         IN /\ virtual' = r.reg
            /\ last' = r.out
    /\ UNCHANGED <<discovery, linked, threads>>

Discovery_repository_decorator ==
    discovery_decorator("discovery.repository", "repository_impl")
Discovery_source_config_decorator ==
    discovery_decorator("discovery.source_config", "source_config_impl")

Linked_pre_snapshot_decorator ==
    linked_decorator("linked.pre_snapshot", "pre_snapshot_impl")
Linked_post_snapshot_decorator ==
    linked_decorator("linked.post_snapshot", "post_snapshot_impl")
Linked_start_staging_decorator ==
    linked_decorator("linked.start_staging", "start_staging_impl")
Linked_stop_staging_decorator ==
    linked_decorator("linked.stop_staging", "stop_staging_impl")
Linked_status_decorator ==
    linked_decorator("linked.status", "status_impl")
Linked_worker_decorator ==
    linked_decorator("linked.worker", "worker_impl")
Linked_mount_specification_decorator ==
    linked_decorator("linked.mount_specification", "mount_specification_impl")

Virtual_configure_decorator ==
    virtual_decorator("virtual.configure", "configure_impl")
Virtual_unconfigure_decorator ==
    virtual_decorator("virtual.unconfigure", "unconfigure_impl")
Virtual_reconfigure_decorator ==
    virtual_decorator("virtual.reconfigure", "reconfigure_impl")
Virtual_start_decorator ==
    virtual_decorator("virtual.start", "start_impl")
Virtual_stop_decorator ==
    virtual_decorator("virtual.stop", "stop_impl")
Virtual_pre_snapshot_decorator ==
    virtual_decorator("virtual.pre_snapshot", "pre_snapshot_impl")
Virtual_post_snapshot_decorator ==
    virtual_decorator("virtual.post_snapshot", "post_snapshot_impl")
Virtual_status_decorator ==
    virtual_decorator("virtual.status", "status_impl")
Virtual_initialize_decorator ==
    virtual_decorator("virtual.initialize", "initialize_impl")
Virtual_mount_specification_decorator ==
    virtual_decorator("virtual.mount_specification", "mount_specification_impl")

\* ------------------------------------------------------------------------
\* Dispatch wrappers: common steps
\* ------------------------------------------------------------------------
Raise(op, request, calls, err) == Outcome("dispatch", op, request, calls, err, None)
Return(op, request, calls, response) ==
    Outcome("dispatch", op, request, calls, None, response)

Ok(v) == [ok |-> TRUE, value |-> v]
Err(e) == [ok |-> FALSE, value |-> e]

\* Invoke catching the exception of the implementation and answering with
\* an empty response.
Invoke_Swallows(op, request, impl, kwargs, result, built) ==
    LET call == Call(impl, kwargs, result)
    IN IF result.raise
       THEN Return(op, request, <<call>>, [return_value |-> [cls |-> "Empty"]])
       ELSE IF built.ok THEN Return(op, request, <<call>>, built.value)
       ELSE Raise(op, request, <<call>>, built.value)

\* Invoke handing out the response it was building when the construction
\* raised.
Invoke_PartialResponse(op, request, impl, kwargs, result, built) ==
    LET call == Call(impl, kwargs, result)
    IN IF result.raise THEN Raise(op, request, <<call>>, result.error)
       ELSE IF built.ok THEN Return(op, request, <<call>>, built.value)
       ELSE Outcome("dispatch", op, request, <<call>>, built.value,
                    [return_value |-> [cls |-> "Partial"]])

\* impl(**kwargs) followed by the construction of the response from the
\* returned value: an exception of the implementation, or of the
\* construction, propagates.  built is the outcome of the construction,
\* which only takes place when the implementation returned.
Invoke(op, request, impl, kwargs, result, built) ==
    LET call == Call(impl, kwargs, result)
    IN IF result.raise THEN Raise(op, request, <<call>>, result.error)
       ELSE IF built.ok THEN Return(op, request, <<call>>, built.value)
       ELSE Raise(op, request, <<call>>, built.value)

\* response.return_value.CopyFrom(<Name>Result())
EmptyResult(name) == [return_value |-> [cls |-> name]]

\* to_protobuf of the discovery and post_snapshot wrappers
to_protobuf(obj) == PluginDefinedObject(json_dumps(to_dict(obj)))

\* to_protobuf_list building the entries in reverse order.
to_protobuf_list_Reversed(l) ==
    [i \in 1..Len(l) |-> to_protobuf(l[Len(l) + 1 - i])]

\* [to_protobuf(x) for x in l]
to_protobuf_list(l) == [i \in 1..Len(l) |-> to_protobuf(l[i])]

\* SnapshotResponse answering with a snapshot kept from another dispatch.
SnapshotResponse_Stale(snapshot) ==
    IF snapshot = None THEN Err(AttributeError)
    ELSE Ok([return_value |->
              [snapshot |-> to_protobuf(from_dict("SnapshotDefinition",
                                                  [name |-> "repo"]))]])

\* response.return_value.snapshot.CopyFrom(to_protobuf(snapshot))
SnapshotResponse(snapshot) ==
    IF snapshot = None THEN Err(AttributeError)
    ELSE Ok([return_value |-> [snapshot |-> to_protobuf(snapshot)]])

\* to_protobuf_ownership_spec with uid and gid exchanged.
to_protobuf_ownership_spec_Swapped(ownership_spec) ==
    [uid |-> ownership_spec.gid, gid |-> ownership_spec.uid]

\* to_protobuf_ownership_spec
to_protobuf_ownership_spec(ownership_spec) ==
    [uid |-> ownership_spec.uid, gid |-> ownership_spec.gid]

\* ------------------------------------------------------------------------
\* DiscoveryOperations wrappers
\* ------------------------------------------------------------------------
Discovery_internal_repository(self, request, result) ==
    LET op == "discovery.repository"
    IN IF ~ Bool(self.repository_impl)
       THEN Raise(op, request, <<>>, NotDefined)
       ELSE Invoke(op, request, self.repository_impl,
                   [source_connection |-> request.source_connection], result,
                   Ok([return_value |->
                        [repositories |-> to_protobuf_list(result.value)]]))

Discovery_internal_source_config(self, request, result) ==
    LET op == "discovery.source_config"
        repository_definition ==
            Unmarshal("RepositoryDefinition", request.repository.parameters)
        failed == FirstFailure(<<repository_definition>>)
    IN IF failed # None THEN Raise(op, request, <<>>, failed)
       ELSE IF ~ Bool(self.source_config_impl)
       THEN Raise(op, request, <<>>, NotDefined)
       ELSE Invoke(op, request, self.source_config_impl,
                   [source_connection |-> request.source_connection,
                    repository |-> repository_definition.value], result,
                   Ok([return_value |->
                        [source_configs |-> to_protobuf_list(result.value)]]))

\* ------------------------------------------------------------------------
\* LinkedOperations wrappers
\* ------------------------------------------------------------------------
\* The unmarshalling every direct wrapper starts with.
UnmarshalDirect(request) ==
    LET definition == Unmarshal("LinkedSourceDefinition",
                                request.direct_source.linked_source.parameters)
        repository == Unmarshal("RepositoryDefinition", request.repository.parameters)
        source_config ==
            Unmarshal("SourceConfigDefinition", request.source_config.parameters)
    IN [failed |-> FirstFailure(<<definition, repository, source_config>>),
        direct_source |-> DirectSource(request.direct_source.linked_source.guid,
                                       request.direct_source.connection,
                                       definition.value),
        repository |-> repository.value,
        source_config |-> source_config.value]

\* The StagedSource built from a request's staged_source.
UnmarshalStagedSource(request) ==
    LET definition == Unmarshal("LinkedSourceDefinition",
                                request.staged_source.linked_source.parameters)
        mount == Mount(request.staged_source.staged_mount.remote_environment,
                       request.staged_source.staged_mount.mount_path,
                       request.staged_source.staged_mount.shared_path)
    IN IF definition.ok
       THEN Ok(StagedSource(request.staged_source.linked_source.guid,
                            request.staged_source.connection,
                            definition.value, mount))
       ELSE definition

\* The unmarshalling of the staged wrappers that take a source_config.
UnmarshalStaged(request) ==
    LET staged_source == UnmarshalStagedSource(request)
        repository == Unmarshal("RepositoryDefinition", request.repository.parameters)
        source_config ==
            Unmarshal("SourceConfigDefinition", request.source_config.parameters)
    IN [failed |-> FirstFailure(<<staged_source, repository, source_config>>),
        staged_source |-> staged_source.value,
        repository |-> repository.value,
        source_config |-> source_config.value]

\* StagedKwargs passing the staged source under the keyword source.
StagedKwargs_Source(u) ==
    [source |-> u.staged_source, repository |-> u.repository,
     source_config |-> u.source_config]

DirectKwargs(u) ==
    [direct_source |-> u.direct_source, repository |-> u.repository,
     source_config |-> u.source_config]
StagedKwargs(u) ==
    [staged_source |-> u.staged_source, repository |-> u.repository,
     source_config |-> u.source_config]

Linked_internal_direct_pre_snapshot(self, request, result) ==
    LET op == "linked.direct_pre_snapshot"
        u == UnmarshalDirect(request)
    IN IF u.failed # None THEN Raise(op, request, <<>>, u.failed)
       ELSE IF ~ Bool(self.pre_snapshot_impl)
       THEN Raise(op, request, <<>>, NotDefined)
       ELSE Invoke(op, request, self.pre_snapshot_impl, DirectKwargs(u), result,
                   Ok(EmptyResult("DirectPreSnapshotResult")))

Linked_internal_direct_post_snapshot(self, request, result) ==
    LET op == "linked.direct_post_snapshot"
        u == UnmarshalDirect(request)
    IN IF u.failed # None THEN Raise(op, request, <<>>, u.failed)
       ELSE IF ~ Bool(self.post_snapshot_impl)
       THEN Raise(op, request, <<>>, NotDefined)
       ELSE Invoke(op, request, self.post_snapshot_impl, DirectKwargs(u), result,
                   SnapshotResponse(result.value))

\* StagedOptional with the request unmarshalled before impl is tested, as
\* the wrappers of required operations do.
StagedOptional_UnmarshalFirst(op, impl, request, result, name) ==
    LET u == UnmarshalStaged(request)
    IN IF u.failed # None THEN Raise(op, request, <<>>, u.failed)
       ELSE IF impl # None
       THEN Invoke(op, request, impl, StagedKwargs(u), result,
                   Ok(EmptyResult(name)))
       ELSE Return(op, request, <<>>, EmptyResult(name))

\* Body shared by the staged wrappers of operations that are not required
\* (pre_snapshot, start_staging, stop_staging, worker): the request is
\* only unmarshalled when impl is not None.
StagedOptional(op, impl, request, result, name) ==
    IF impl # None
    THEN LET u == UnmarshalStaged(request)
         IN IF u.failed # None THEN Raise(op, request, <<>>, u.failed)
            ELSE Invoke(op, request, impl, StagedKwargs(u), result,
                        Ok(EmptyResult(name)))
    ELSE Return(op, request, <<>>, EmptyResult(name))

Linked_internal_staged_pre_snapshot(self, request, result) ==
    StagedOptional("linked.staged_pre_snapshot", self.pre_snapshot_impl,
                   request, result, "StagedPreSnapshotResult")

Linked_internal_staged_post_snapshot(self, request, result) ==
    LET op == "linked.staged_post_snapshot"
        u == UnmarshalStaged(request)
    IN IF u.failed # None THEN Raise(op, request, <<>>, u.failed)
       ELSE IF ~ Bool(self.post_snapshot_impl)
       THEN Raise(op, request, <<>>, NotDefined)
       ELSE Invoke(op, request, self.post_snapshot_impl, StagedKwargs(u), result,
                   SnapshotResponse(result.value))

Linked_internal_start_staging(self, request, result) ==
    StagedOptional("linked.start_staging", self.start_staging_impl,
                   request, result, "StartStagingResult")

Linked_internal_stop_staging(self, request, result) ==
    StagedOptional("linked.stop_staging", self.stop_staging_impl,
                   request, result, "StopStagingResult")

\* response.return_value.status = status.value
StatusResponse(status) ==
    IF status = None THEN Err(AttributeError)
    ELSE Ok([return_value |-> [status |-> status.value]])

\* Linked_internal_status treating status as a required operation.
Linked_internal_status_Required(self, request, result) ==
    LET op == "linked.status"
        u == UnmarshalStaged(request)
    IN IF ~ Bool(self.status_impl) THEN Raise(op, request, <<>>, NotDefined)
       ELSE IF u.failed # None THEN Raise(op, request, <<>>, u.failed)
       ELSE Invoke(op, request, self.status_impl, StagedKwargs(u),
                   result, StatusResponse(result.value))

Linked_internal_status(self, request, result) ==
    LET op == "linked.status"
    IN IF ~ Bool(self.status_impl)
       THEN Return(op, request, <<>>,
                   [return_value |-> [status |-> StagedStatusResult_ACTIVE]])
       ELSE LET u == UnmarshalStaged(request)
            IN IF u.failed # None THEN Raise(op, request, <<>>, u.failed)
               ELSE Invoke(op, request, self.status_impl, StagedKwargs(u),
                           result, StatusResponse(result.value))

Linked_internal_worker(self, request, result) ==
    StagedOptional("linked.worker", self.worker_impl,
                   request, result, "StagedWorkerResult")

\* Linked_to_protobuf_single_mount filling mount_path from the wrong field.
Linked_to_protobuf_single_mount_WrongField(single_mount) ==
    IF BoolStr(single_mount.shared_path) THEN Err(AssertionError)
    ELSE Ok([mount_path |-> single_mount.shared_path,
             remote_environment |-> single_mount.remote_environment])

\* to_protobuf_single_mount of the linked mount_specification wrapper; the
\* assert statement raises when shared_path is set.
Linked_to_protobuf_single_mount(single_mount) ==
    IF BoolStr(single_mount.shared_path) THEN Err(AssertionError)
    ELSE Ok([mount_path |-> single_mount.mount_path,
             remote_environment |-> single_mount.remote_environment])

\* StagedMountSpecResponse rejecting only an empty mounts list.
StagedMountSpecResponse_AtLeastOne(mount_spec) ==
    IF mount_spec = None THEN Err(AttributeError)
    ELSE IF Len(mount_spec.mounts) < 1 THEN Err(ExactlyOneMount)
    ELSE LET staged_mount ==
                 Linked_to_protobuf_single_mount(mount_spec.mounts[1])
         IN IF ~ staged_mount.ok THEN staged_mount
            ELSE Ok([return_value |->
                      [staged_mount |-> staged_mount.value,
                       ownership_spec |->
                         IF Bool(mount_spec.ownership_specification)
                         THEN to_protobuf_ownership_spec(
                                  mount_spec.ownership_specification)
                         ELSE None]])

\* The steps of the linked mount_specification wrapper after the
\* implementation returned mount_spec.
StagedMountSpecResponse(mount_spec) ==
    IF mount_spec = None THEN Err(AttributeError)
    ELSE LET mountLen == Len(mount_spec.mounts)
         IN IF mountLen # 1 THEN Err(ExactlyOneMount)
            ELSE LET staged_mount ==
                         Linked_to_protobuf_single_mount(mount_spec.mounts[1])
                 IN IF ~ staged_mount.ok THEN staged_mount
                    ELSE Ok([return_value |->
                              [staged_mount |-> staged_mount.value,
                               ownership_spec |->
                                 IF Bool(mount_spec.ownership_specification)
                                 THEN to_protobuf_ownership_spec(
                                          mount_spec.ownership_specification)
                                 ELSE None]])

Linked_internal_mount_specification(self, request, result) ==
    LET op == "linked.mount_specification"
        staged_source == UnmarshalStagedSource(request)
        repository == Unmarshal("RepositoryDefinition", request.repository.parameters)
        failed == FirstFailure(<<staged_source, repository>>)
    IN IF failed # None THEN Raise(op, request, <<>>, failed)
       ELSE IF ~ Bool(self.mount_specification_impl)
       THEN Raise(op, request, <<>>, NotDefined)
       ELSE Invoke(op, request, self.mount_specification_impl,
                   [staged_source |-> staged_source.value,
                    repository |-> repository.value], result,
                   StagedMountSpecResponse(result.value))

\* ------------------------------------------------------------------------
\* VirtualOperations wrappers
\* ------------------------------------------------------------------------
\* The VirtualSource built from a request's virtual_source.
UnmarshalVirtualSource(request) ==
    LET definition == Unmarshal("VirtualSourceDefinition",
                                request.virtual_source.parameters)
    IN IF definition.ok
       THEN Ok(VirtualSource(request.virtual_source.guid,
                             request.virtual_source.connection,
                             definition.value))
       ELSE definition

\* The unmarshalling of the virtual wrappers that take a repository and a
\* source_config.
UnmarshalVirtual(request) ==
    LET virtual_source == UnmarshalVirtualSource(request)
        repository == Unmarshal("RepositoryDefinition", request.repository.parameters)
        source_config ==
            Unmarshal("SourceConfigDefinition", request.source_config.parameters)
    IN [failed |-> FirstFailure(<<virtual_source, repository, source_config>>),
        virtual_source |-> virtual_source.value,
        repository |-> repository.value,
        source_config |-> source_config.value]

VirtualKwargs(u) ==
    [repository |-> u.repository, source_config |-> u.source_config,
     virtual_source |-> u.virtual_source]

\* response.return_value.source_config.parameters.json =
\*     json.dumps(config.to_dict())
SourceConfigResponse(config) ==
    LET m == Marshal(config)
    IN IF m.ok
       THEN Ok([return_value |-> [source_config |-> PluginDefinedObject(m.value)]])
       ELSE m

Virtual_internal_configure(self, request, result) ==
    LET op == "virtual.configure"
        virtual_source == UnmarshalVirtualSource(request)
        repository == Unmarshal("RepositoryDefinition", request.repository.parameters)
        snapshot == Unmarshal("SnapshotDefinition", request.snapshot.parameters)
        failed == FirstFailure(<<virtual_source, repository, snapshot>>)
    IN IF failed # None THEN Raise(op, request, <<>>, failed)
       ELSE IF ~ Bool(self.configure_impl)
       THEN Raise(op, request, <<>>, NotDefined)
       ELSE Invoke(op, request, self.configure_impl,
                   [virtual_source |-> virtual_source.value,
                    repository |-> repository.value,
                    snapshot |-> snapshot.value], result,
                   SourceConfigResponse(result.value))

\* Body shared by the virtual wrappers of operations that are not required
\* (unconfigure, start, stop, pre_snapshot): the request is only
\* unmarshalled when impl is not None.
VirtualOptional(op, impl, request, result, name) ==
    IF impl # None
    THEN LET u == UnmarshalVirtual(request)
         IN IF u.failed # None THEN Raise(op, request, <<>>, u.failed)
            ELSE Invoke(op, request, impl, VirtualKwargs(u), result,
                        Ok(EmptyResult(name)))
    ELSE Return(op, request, <<>>, EmptyResult(name))

Virtual_internal_unconfigure(self, request, result) ==
    VirtualOptional("virtual.unconfigure", self.unconfigure_impl,
                    request, result, "UnconfigureResult")

Virtual_internal_reconfigure(self, request, result) ==
    LET op == "virtual.reconfigure"
        virtual_source == UnmarshalVirtualSource(request)
        snapshot == Unmarshal("SnapshotDefinition", request.snapshot.parameters)
        source_config ==
            Unmarshal("SourceConfigDefinition", request.source_config.parameters)
        failed == FirstFailure(<<virtual_source, snapshot, source_config>>)
    IN IF failed # None THEN Raise(op, request, <<>>, failed)
       ELSE IF ~ Bool(self.reconfigure_impl)
       THEN Raise(op, request, <<>>, NotDefined)
       ELSE Invoke(op, request, self.reconfigure_impl,
                   [snapshot |-> snapshot.value,
                    source_config |-> source_config.value,
                    virtual_source |-> virtual_source.value], result,
                   SourceConfigResponse(result.value))

Virtual_internal_start(self, request, result) ==
    VirtualOptional("virtual.start", self.start_impl,
                    request, result, "StartResult")

Virtual_internal_stop(self, request, result) ==
    VirtualOptional("virtual.stop", self.stop_impl,
                    request, result, "StopResult")

Virtual_internal_pre_snapshot(self, request, result) ==
    VirtualOptional("virtual.pre_snapshot", self.pre_snapshot_impl,
                    request, result, "VirtualPreSnapshotResult")

Virtual_internal_post_snapshot(self, request, result) ==
    LET op == "virtual.post_snapshot"
        u == UnmarshalVirtual(request)
    IN IF u.failed # None THEN Raise(op, request, <<>>, u.failed)
       ELSE IF ~ Bool(self.post_snapshot_impl)
       THEN Raise(op, request, <<>>, NotDefined)
       ELSE Invoke(op, request, self.post_snapshot_impl, VirtualKwargs(u),
                   result, SnapshotResponse(result.value))

\* Virtual_internal_status unmarshalling the request before it tests the
\* attribute.
Virtual_internal_status_UnmarshalFirst(self, request, result) ==
    LET op == "virtual.status"
        u == UnmarshalVirtual(request)
    IN IF u.failed # None THEN Raise(op, request, <<>>, u.failed)
       ELSE IF ~ Bool(self.status_impl)
       THEN Return(op, request, <<>>,
                   [return_value |-> [status |-> VirtualStatusResponse_ACTIVE]])
       ELSE Invoke(op, request, self.status_impl, VirtualKwargs(u),
                   result, StatusResponse(result.value))

Virtual_internal_status(self, request, result) ==
    LET op == "virtual.status"
    IN IF ~ Bool(self.status_impl)
       THEN Return(op, request, <<>>,
                   [return_value |-> [status |-> VirtualStatusResponse_ACTIVE]])
       ELSE LET u == UnmarshalVirtual(request)
            IN IF u.failed # None THEN Raise(op, request, <<>>, u.failed)
               ELSE Invoke(op, request, self.status_impl, VirtualKwargs(u),
                           result, StatusResponse(result.value))

Virtual_internal_initialize(self, request, result) ==
    LET op == "virtual.initialize"
        u == UnmarshalVirtual(request)
    IN IF u.failed # None THEN Raise(op, request, <<>>, u.failed)
       ELSE IF ~ Bool(self.initialize_impl)
       THEN Raise(op, request, <<>>, NotDefined)
       ELSE Invoke(op, request, self.initialize_impl, VirtualKwargs(u), result,
                   Ok(EmptyResult("InitializeResult")))

\* to_protobuf_single_mount of the virtual mount_specification wrapper;
\* shared_path keeps the schema's default ("") unless the mount sets it.
Virtual_to_protobuf_single_mount(single_mount) ==
    LET host_protobuf ==
            [name |-> single_mount.remote_environment.host.name,
             reference |-> single_mount.remote_environment.host.reference,
             binary_path |-> single_mount.remote_environment.host.binary_path,
             scratch_path |-> single_mount.remote_environment.host.scratch_path]
        environment_protobuf ==
            [name |-> single_mount.remote_environment.name,
             reference |-> single_mount.remote_environment.reference,
             host |-> host_protobuf]
    IN [remote_environment |-> environment_protobuf,
        mount_path |-> single_mount.mount_path,
        shared_path |-> IF BoolStr(single_mount.shared_path)
                        THEN single_mount.shared_path ELSE ""]

\* mounts_list building the entries in reverse order.
mounts_list_Reversed(mounts) ==
    [i \in 1..Len(mounts) |->
        Virtual_to_protobuf_single_mount(mounts[Len(mounts) + 1 - i])]

\* [to_protobuf_single_mount(m) for m in virtual_mount_spec.mounts]
mounts_list(mounts) ==
    [i \in 1..Len(mounts) |-> Virtual_to_protobuf_single_mount(mounts[i])]

\* The steps of the virtual mount_specification wrapper after the
\* implementation returned virtual_mount_spec.
VirtualMountSpecResponse(virtual_mount_spec) ==
    IF virtual_mount_spec = None THEN Err(AttributeError)
    ELSE Ok([return_value |->
              [ownership_spec |->
                 IF Bool(virtual_mount_spec.ownership_specification)
                 THEN to_protobuf_ownership_spec(
                          virtual_mount_spec.ownership_specification)
                 ELSE None,
               mounts |-> mounts_list(virtual_mount_spec.mounts)]])

Virtual_internal_mount_specification(self, request, result) ==
    LET op == "virtual.mount_specification"
        virtual_source == UnmarshalVirtualSource(request)
        repository == Unmarshal("RepositoryDefinition", request.repository.parameters)
        failed == FirstFailure(<<virtual_source, repository>>)
    IN IF failed # None THEN Raise(op, request, <<>>, failed)
       ELSE IF ~ Bool(self.mount_specification_impl)
       THEN Raise(op, request, <<>>, NotDefined)
       ELSE Invoke(op, request, self.mount_specification_impl,
                   [repository |-> repository.value,
                    virtual_source |-> virtual_source.value], result,
                   VirtualMountSpecResponse(result.value))

\* ------------------------------------------------------------------------
\* Calls made by the runtime
\* ------------------------------------------------------------------------
\* The behaviours the implementation held by an attribute can show when
\* it is called; an unset attribute has no implementation to choose a
\* behaviour for.
BehavioursOf(impl, results) == IF impl = None THEN {Raises} ELSE results

\* Dispatch of a wrapper that forgets the implementation of virtual.status
\* once it has run.
Dispatch_Stateful(outcome) ==
    /\ last.kind = "idle"
    /\ last' = outcome
    /\ virtual' = [virtual EXCEPT !.status_impl = None]
    /\ UNCHANGED <<discovery, linked, threads>>

\* A wrapper call: it reads the registry and changes no attribute.
Dispatch(outcome) ==
    /\ last.kind = "idle"
    /\ last' = outcome
    /\ UNCHANGED <<discovery, linked, virtual, threads>>

Call_Discovery_internal_repository ==
    \E request \in RepositoryDiscoveryRequests,
       result \in BehavioursOf(discovery.repository_impl,
                               ListResults("RepositoryDefinition")) :
        Dispatch(Discovery_internal_repository(discovery, request, result))
Call_Discovery_internal_source_config ==
    \E request \in SourceConfigDiscoveryRequests,
       result \in BehavioursOf(discovery.source_config_impl,
                               ListResults("SourceConfigDefinition")) :
        Dispatch(Discovery_internal_source_config(discovery, request, result))

Call_Linked_internal_direct_pre_snapshot ==
    \E request \in DirectRequests,
       result \in BehavioursOf(linked.pre_snapshot_impl, VoidResults) :
        Dispatch(Linked_internal_direct_pre_snapshot(linked, request, result))
Call_Linked_internal_direct_post_snapshot ==
    \E request \in DirectRequests,
       result \in BehavioursOf(linked.post_snapshot_impl,
                               DefinitionResults("SnapshotDefinition")) :
        Dispatch(Linked_internal_direct_post_snapshot(linked, request, result))
Call_Linked_internal_staged_pre_snapshot ==
    \E request \in StagedRequests,
       result \in BehavioursOf(linked.pre_snapshot_impl, VoidResults) :
        Dispatch(Linked_internal_staged_pre_snapshot(linked, request, result))
Call_Linked_internal_staged_post_snapshot ==
    \E request \in StagedRequests,
       result \in BehavioursOf(linked.post_snapshot_impl,
                               DefinitionResults("SnapshotDefinition")) :
        Dispatch(Linked_internal_staged_post_snapshot(linked, request, result))
Call_Linked_internal_start_staging ==
    \E request \in StagedRequests,
       result \in BehavioursOf(linked.start_staging_impl, VoidResults) :
        Dispatch(Linked_internal_start_staging(linked, request, result))
Call_Linked_internal_stop_staging ==
    \E request \in StagedRequests,
       result \in BehavioursOf(linked.stop_staging_impl, VoidResults) :
        Dispatch(Linked_internal_stop_staging(linked, request, result))
Call_Linked_internal_status ==
    \E request \in StagedRequests,
       result \in BehavioursOf(linked.status_impl, StatusResults) :
        Dispatch(Linked_internal_status(linked, request, result))
Call_Linked_internal_worker ==
    \E request \in StagedRequests,
       result \in BehavioursOf(linked.worker_impl, VoidResults) :
        Dispatch(Linked_internal_worker(linked, request, result))
Call_Linked_internal_mount_specification ==
    \E request \in StagedMountSpecRequests,
       result \in BehavioursOf(linked.mount_specification_impl, MountSpecResults) :
        Dispatch(Linked_internal_mount_specification(linked, request, result))

Call_Virtual_internal_configure ==
    \E request \in ConfigureRequests,
       result \in BehavioursOf(virtual.configure_impl,
                               DefinitionResults("SourceConfigDefinition")) :
        Dispatch(Virtual_internal_configure(virtual, request, result))
Call_Virtual_internal_unconfigure ==
    \E request \in VirtualRequests,
       result \in BehavioursOf(virtual.unconfigure_impl, VoidResults) :
        Dispatch(Virtual_internal_unconfigure(virtual, request, result))
Call_Virtual_internal_reconfigure ==
    \E request \in ReconfigureRequests,
       result \in BehavioursOf(virtual.reconfigure_impl,
                               DefinitionResults("SourceConfigDefinition")) :
        Dispatch(Virtual_internal_reconfigure(virtual, request, result))
Call_Virtual_internal_start ==
    \E request \in VirtualRequests,
       result \in BehavioursOf(virtual.start_impl, VoidResults) :
        Dispatch(Virtual_internal_start(virtual, request, result))
Call_Virtual_internal_stop ==
    \E request \in VirtualRequests,
       result \in BehavioursOf(virtual.stop_impl, VoidResults) :
        Dispatch(Virtual_internal_stop(virtual, request, result))
Call_Virtual_internal_pre_snapshot ==
    \E request \in VirtualRequests,
       result \in BehavioursOf(virtual.pre_snapshot_impl, VoidResults) :
        Dispatch(Virtual_internal_pre_snapshot(virtual, request, result))
Call_Virtual_internal_post_snapshot ==
    \E request \in VirtualRequests,
       result \in BehavioursOf(virtual.post_snapshot_impl,
                               DefinitionResults("SnapshotDefinition")) :
        Dispatch(Virtual_internal_post_snapshot(virtual, request, result))
Call_Virtual_internal_status ==
    \E request \in VirtualRequests,
       result \in BehavioursOf(virtual.status_impl, StatusResults) :
        Dispatch(Virtual_internal_status(virtual, request, result))
Call_Virtual_internal_initialize ==
    \E request \in VirtualRequests,
       result \in BehavioursOf(virtual.initialize_impl, VoidResults) :
        Dispatch(Virtual_internal_initialize(virtual, request, result))
Call_Virtual_internal_mount_specification ==
    \E request \in VirtualMountSpecRequests,
       result \in BehavioursOf(virtual.mount_specification_impl, MountSpecResults) :
        Dispatch(Virtual_internal_mount_specification(virtual, request, result))

\* The runtime takes the outcome of the call (response or exception); the
\* next call can be made.
runtime_return ==
    /\ last.kind # "idle"
    /\ last' = Idle
    /\ UNCHANGED <<discovery, linked, virtual, threads>>

Register ==
    \/ Discovery_repository_decorator
    \/ Discovery_source_config_decorator
    \/ Linked_pre_snapshot_decorator
    \/ Linked_post_snapshot_decorator
    \/ Linked_start_staging_decorator
    \/ Linked_stop_staging_decorator
    \/ Linked_status_decorator
    \/ Linked_worker_decorator
    \/ Linked_mount_specification_decorator
    \/ Virtual_configure_decorator
    \/ Virtual_unconfigure_decorator
    \/ Virtual_reconfigure_decorator
    \/ Virtual_start_decorator
    \/ Virtual_stop_decorator
    \/ Virtual_pre_snapshot_decorator
    \/ Virtual_post_snapshot_decorator
    \/ Virtual_status_decorator
    \/ Virtual_initialize_decorator
    \/ Virtual_mount_specification_decorator

Next ==
    \/ Register
    \/ Call_Discovery_internal_repository
    \/ Call_Discovery_internal_source_config
    \/ Call_Linked_internal_direct_pre_snapshot
    \/ Call_Linked_internal_direct_post_snapshot
    \/ Call_Linked_internal_staged_pre_snapshot
    \/ Call_Linked_internal_staged_post_snapshot
    \/ Call_Linked_internal_start_staging
    \/ Call_Linked_internal_stop_staging
    \/ Call_Linked_internal_status
    \/ Call_Linked_internal_worker
    \/ Call_Linked_internal_mount_specification
    \/ Call_Virtual_internal_configure
    \/ Call_Virtual_internal_unconfigure
    \/ Call_Virtual_internal_reconfigure
    \/ Call_Virtual_internal_start
    \/ Call_Virtual_internal_stop
    \/ Call_Virtual_internal_pre_snapshot
    \/ Call_Virtual_internal_post_snapshot
    \/ Call_Virtual_internal_status
    \/ Call_Virtual_internal_initialize
    \/ Call_Virtual_internal_mount_specification
    \/ runtime_return

Spec == Init /\ [][Next]_vars

\* ------------------------------------------------------------------------
\* Wrappers running on several threads
\* ------------------------------------------------------------------------
\* The runtime may call wrappers on several threads once the plugin module
\* has been loaded (all decorators have run).  A wrapper then runs as a
\* sequence of steps, each on the locals of its own call: unmarshalling of
\* the request, test of the attribute, call of the implementation, and
\* construction of the response.
RequiredOps ==
    {"discovery.repository", "discovery.source_config",
     "linked.direct_pre_snapshot", "linked.direct_post_snapshot",
     "linked.staged_post_snapshot", "linked.mount_specification",
     "virtual.configure", "virtual.reconfigure", "virtual.post_snapshot",
     "virtual.initialize", "virtual.mount_specification"}
StatusOps == {"linked.status", "virtual.status"}
NoopOps ==
    {"linked.staged_pre_snapshot", "linked.start_staging",
     "linked.stop_staging", "linked.worker", "virtual.unconfigure",
     "virtual.start", "virtual.stop", "virtual.pre_snapshot"}
AllOps == RequiredOps \cup StatusOps \cup NoopOps

\* self.<op>_impl as read by the wrapper named op.
slot_impl(op) ==
    CASE op = "discovery.repository" -> discovery.repository_impl
      [] op = "discovery.source_config" -> discovery.source_config_impl
      [] op \in {"linked.direct_pre_snapshot", "linked.staged_pre_snapshot"} ->
           linked.pre_snapshot_impl
      [] op \in {"linked.direct_post_snapshot", "linked.staged_post_snapshot"} ->
           linked.post_snapshot_impl
      [] op = "linked.start_staging" -> linked.start_staging_impl
      [] op = "linked.stop_staging" -> linked.stop_staging_impl
      [] op = "linked.status" -> linked.status_impl
      [] op = "linked.worker" -> linked.worker_impl
      [] op = "linked.mount_specification" -> linked.mount_specification_impl
      [] op = "virtual.configure" -> virtual.configure_impl
      [] op = "virtual.unconfigure" -> virtual.unconfigure_impl
      [] op = "virtual.reconfigure" -> virtual.reconfigure_impl
      [] op = "virtual.start" -> virtual.start_impl
      [] op = "virtual.stop" -> virtual.stop_impl
      [] op = "virtual.pre_snapshot" -> virtual.pre_snapshot_impl
      [] op = "virtual.post_snapshot" -> virtual.post_snapshot_impl
      [] op = "virtual.status" -> virtual.status_impl
      [] op = "virtual.initialize" -> virtual.initialize_impl
      [] op = "virtual.mount_specification" -> virtual.mount_specification_impl

\* A wrapper going on to the call whatever its attribute holds.
slot_bound_Unchecked(op) == TRUE

\* The test a wrapper makes of its attribute: `if not self.<op>_impl` in
\* the wrappers of required operations and of status, `is not None` in the
\* others.
slot_bound(op) ==
    IF op \in NoopOps THEN slot_impl(op) # None ELSE Bool(slot_impl(op))

\* The requests the runtime sends to the wrapper named op.
RequestsOf(op) ==
    CASE op = "discovery.repository" -> RepositoryDiscoveryRequests
      [] op = "discovery.source_config" -> SourceConfigDiscoveryRequests
      [] op \in {"linked.direct_pre_snapshot", "linked.direct_post_snapshot"} ->
           DirectRequests
      [] op = "linked.mount_specification" -> StagedMountSpecRequests
      [] op \in {"linked.staged_pre_snapshot", "linked.staged_post_snapshot",
                 "linked.start_staging", "linked.stop_staging",
                 "linked.status", "linked.worker"} -> StagedRequests
      [] op = "virtual.configure" -> ConfigureRequests
      [] op = "virtual.reconfigure" -> ReconfigureRequests
      [] op = "virtual.mount_specification" -> VirtualMountSpecRequests
      [] OTHER -> VirtualRequests

\* The unmarshalling statements of the wrapper named op: the first error
\* they raise (or None) and the keyword arguments they build.
unmarshal(op, request) ==
    CASE op = "discovery.repository" ->
           [failed |-> None,
            kwargs |-> [source_connection |-> request.source_connection]]
      [] op = "discovery.source_config" ->
           LET repository_definition ==
                   Unmarshal("RepositoryDefinition", request.repository.parameters)
           IN [failed |-> FirstFailure(<<repository_definition>>),
               kwargs |-> [source_connection |-> request.source_connection,
                           repository |-> repository_definition.value]]
      [] op \in {"linked.direct_pre_snapshot", "linked.direct_post_snapshot"} ->
           LET u == UnmarshalDirect(request)
           IN [failed |-> u.failed, kwargs |-> DirectKwargs(u)]
      [] op = "linked.mount_specification" ->
           LET staged_source == UnmarshalStagedSource(request)
               repository ==
                   Unmarshal("RepositoryDefinition", request.repository.parameters)
           IN [failed |-> FirstFailure(<<staged_source, repository>>),
               kwargs |-> [staged_source |-> staged_source.value,
                           repository |-> repository.value]]
      [] op \in {"linked.staged_pre_snapshot", "linked.staged_post_snapshot",
                 "linked.start_staging", "linked.stop_staging",
                 "linked.status", "linked.worker"} ->
           LET u == UnmarshalStaged(request)
           IN [failed |-> u.failed, kwargs |-> StagedKwargs(u)]
      [] op = "virtual.configure" ->
           LET virtual_source == UnmarshalVirtualSource(request)
               repository ==
                   Unmarshal("RepositoryDefinition", request.repository.parameters)
               snapshot ==
                   Unmarshal("SnapshotDefinition", request.snapshot.parameters)
           IN [failed |-> FirstFailure(<<virtual_source, repository, snapshot>>),
               kwargs |-> [virtual_source |-> virtual_source.value,
                           repository |-> repository.value,
                           snapshot |-> snapshot.value]]
      [] op = "virtual.reconfigure" ->
           LET virtual_source == UnmarshalVirtualSource(request)
               snapshot ==
                   Unmarshal("SnapshotDefinition", request.snapshot.parameters)
               source_config ==
                   Unmarshal("SourceConfigDefinition",
                             request.source_config.parameters)
           IN [failed |-> FirstFailure(<<virtual_source, snapshot, source_config>>),
               kwargs |-> [snapshot |-> snapshot.value,
                           source_config |-> source_config.value,
                           virtual_source |-> virtual_source.value]]
      [] op = "virtual.mount_specification" ->
           LET virtual_source == UnmarshalVirtualSource(request)
               repository ==
                   Unmarshal("RepositoryDefinition", request.repository.parameters)
           IN [failed |-> FirstFailure(<<virtual_source, repository>>),
               kwargs |-> [repository |-> repository.value,
                           virtual_source |-> virtual_source.value]]
      [] OTHER ->
           LET u == UnmarshalVirtual(request)
           IN [failed |-> u.failed, kwargs |-> VirtualKwargs(u)]

\* The name of the empty result of the wrappers that return one.
empty_result_name(op) ==
    CASE op = "linked.direct_pre_snapshot" -> "DirectPreSnapshotResult"
      [] op = "linked.staged_pre_snapshot" -> "StagedPreSnapshotResult"
      [] op = "linked.start_staging" -> "StartStagingResult"
      [] op = "linked.stop_staging" -> "StopStagingResult"
      [] op = "linked.worker" -> "StagedWorkerResult"
      [] op = "virtual.unconfigure" -> "UnconfigureResult"
      [] op = "virtual.start" -> "StartResult"
      [] op = "virtual.stop" -> "StopResult"
      [] op = "virtual.pre_snapshot" -> "VirtualPreSnapshotResult"
      [] op = "virtual.initialize" -> "InitializeResult"

\* The statements of the wrapper named op that build the response from the
\* value the implementation returned.
marshal(op, value) ==
    CASE op = "discovery.repository" ->
           Ok([return_value |-> [repositories |-> to_protobuf_list(value)]])
      [] op = "discovery.source_config" ->
           Ok([return_value |-> [source_configs |-> to_protobuf_list(value)]])
      [] op \in {"linked.direct_post_snapshot", "linked.staged_post_snapshot",
                 "virtual.post_snapshot"} -> SnapshotResponse(value)
      [] op \in StatusOps -> StatusResponse(value)
      [] op = "linked.mount_specification" -> StagedMountSpecResponse(value)
      [] op \in {"virtual.configure", "virtual.reconfigure"} ->
           SourceConfigResponse(value)
      [] op = "virtual.mount_specification" -> VirtualMountSpecResponse(value)
      [] OTHER -> Ok(EmptyResult(empty_result_name(op)))

\* The response of a wrapper of an operation that is not required when its
\* attribute is not set.
default_response(op) ==
    CASE op = "linked.status" ->
           [return_value |-> [status |-> StagedStatusResult_ACTIVE]]
      [] op = "virtual.status" ->
           [return_value |-> [status |-> VirtualStatusResponse_ACTIVE]]
      [] OTHER -> EmptyResult(empty_result_name(op))

\* What the implementation of op may do when it is called on a thread.
ThreadBehaviours(op) ==
    {Raises} \cup
    CASE op \in {"discovery.repository"} ->
           {Ret(<<from_dict("RepositoryDefinition", [name |-> "repo"]),
                  from_dict("RepositoryDefinition", [path |-> "/cfg"])>>)}
      [] op = "discovery.source_config" ->
           {Ret(<<from_dict("SourceConfigDefinition", [path |-> "/cfg"])>>)}
      [] op \in {"linked.direct_post_snapshot", "linked.staged_post_snapshot",
                 "virtual.post_snapshot"} ->
           {Ret(from_dict("SnapshotDefinition", [id |-> "snap"]))}
      [] op \in {"virtual.configure", "virtual.reconfigure"} ->
           {Ret(from_dict("SourceConfigDefinition", [version |-> "1.0"]))}
      [] op \in StatusOps -> {Ret(StatusINACTIVE)}
      [] op = "linked.mount_specification" ->
           {Ret(MountSpecification(<<MountA>>, None))}
      [] op = "virtual.mount_specification" ->
           {Ret(MountSpecification(<<MountA, MountB>>, [uid |-> 1001, gid |-> 2002]))}
      [] OTHER -> {Ret(None)}

\* The implementation the plugin module registered for an attribute.
ImplFor(reg, attr) == [cls |-> "function", name |-> attr, registry |-> reg]

\* A registry after the plugin module was loaded: every attribute holds its
\* own implementation (bound) or the module registered nothing.
Loaded(reg, operations, bound) ==
    [attr \in DOMAIN operations |-> IF bound THEN ImplFor(reg, attr) ELSE None]

\* The plugin module has been loaded; no wrapper is running.
ConcInit ==
    /\ \E bound \in BOOLEAN :
         /\ discovery = Loaded("discovery", DiscoveryOperations, bound)
         /\ linked = Loaded("linked", LinkedOperations, bound)
         /\ virtual = Loaded("virtual", VirtualOperations, bound)
    /\ last = Idle
    /\ threads = NoThreads

\* A step of the wrapper running on thread t: the thread's new state.
Step(t, thread) ==
    /\ threads' = [threads EXCEPT ![t] = thread]
    /\ UNCHANGED <<discovery, linked, virtual, last>>

\* The wrapper on thread t ends with an outcome.
Done(thread, outcome) == [thread EXCEPT !.pc = "done", !.outcome = outcome]

\* The runtime calls one of the wrappers named in ops with a request on
\* thread t.
enter(t, ops) ==
    /\ threads[t].pc = "idle"
    /\ \E op \in ops :
         \E request \in {r \in RequestsOf(op) : RequestParses(r)} :
            Step(t, [ThreadIdle EXCEPT !.pc = "entered", !.op = op,
                                       !.request = request])

\* The runtime calls a wrapper on thread t.
wrapper_enter(t) == enter(t, AllOps)

\* The unmarshalling statements: the first statements of a wrapper of a
\* required operation, and the ones after the test of the attribute in the
\* other wrappers.
wrapper_unmarshal(t) ==
    LET thread == threads[t]
        required == thread.op \in RequiredOps
        u == unmarshal(thread.op, thread.request)
    IN /\ \/ required /\ thread.pc = "entered"
          \/ ~ required /\ thread.pc = "checked"
       /\ IF u.failed # None
          THEN Step(t, Done(thread, Raise(thread.op, thread.request, <<>>,
                                          u.failed)))
          ELSE Step(t, [thread EXCEPT !.kwargs = u.kwargs,
                           !.pc = IF required THEN "unmarshalled" ELSE "ready"])

\* The test of the attribute (first read of self.<op>_impl).
wrapper_check(t) ==
    LET thread == threads[t]
        required == thread.op \in RequiredOps
    IN /\ \/ required /\ thread.pc = "unmarshalled"
          \/ ~ required /\ thread.pc = "entered"
       /\ IF slot_bound(thread.op)
          THEN Step(t, [thread EXCEPT
                           !.pc = IF required THEN "ready" ELSE "checked"])
          ELSE IF required
          THEN Step(t, Done(thread, Raise(thread.op, thread.request, <<>>,
                                          NotDefined)))
          ELSE Step(t, Done(thread, Return(thread.op, thread.request, <<>>,
                                           default_response(thread.op))))

\* The keyword arguments of the call on thread t: the wrapper's locals
\* kept by the thread of another wrapper, when there is one.
call_kwargs_Shared(t) ==
    LET others == {u \in Threads \ {t} : threads[u].kwargs # None}
    IN IF others = {} THEN threads[t].kwargs
       ELSE threads[CHOOSE u \in others : TRUE].kwargs

\* The keyword arguments of the call on thread t: the wrapper's locals.
call_kwargs(t) == threads[t].kwargs

\* self.<op>_impl(**kwargs) (second read of the attribute): the
\* implementation returns or raises; an attribute holding None cannot be
\* called.
wrapper_call(t) ==
    LET thread == threads[t]
    IN /\ thread.pc = "ready"
       /\ \E result \in ThreadBehaviours(thread.op) :
            LET call == Call(slot_impl(thread.op), call_kwargs(t), result)
            IN IF slot_impl(thread.op) = None
               THEN Step(t, Done(thread, Raise(thread.op, thread.request, <<>>,
                                               TypeError)))
               ELSE IF result.raise
               THEN Step(t, Done([thread EXCEPT !.calls = <<call>>],
                                 Raise(thread.op, thread.request, <<call>>,
                                       result.error)))
               ELSE Step(t, [thread EXCEPT !.pc = "returned",
                                           !.calls = <<call>>])

\* The construction of the response and the return statement.
wrapper_marshal(t) ==
    LET thread == threads[t]
        built == marshal(thread.op, thread.calls[1].result.value)
    IN /\ thread.pc = "returned"
       /\ IF built.ok
          THEN Step(t, Done(thread, Return(thread.op, thread.request,
                                           thread.calls, built.value)))
          ELSE Step(t, Done(thread, Raise(thread.op, thread.request,
                                          thread.calls, built.value)))

\* The runtime takes the outcome of the wrapper that ran on thread t.
wrapper_return(t) ==
    /\ threads[t].pc = "done"
    /\ Step(t, ThreadIdle)

ConcNext ==
    \E t \in Threads :
        \/ wrapper_enter(t)
        \/ wrapper_unmarshal(t)
        \/ wrapper_check(t)
        \/ wrapper_call(t)
        \/ wrapper_marshal(t)
        \/ wrapper_return(t)

ConcSpec == ConcInit /\ [][ConcNext]_vars

\* ========================================================================
\* Properties
\* ========================================================================
\* The attributes of the three registries, each with the name its decorator
\* reports.
Slots ==
    {[reg |-> "discovery", attr |-> "repository_impl", op |-> "discovery.repository"],
     [reg |-> "discovery", attr |-> "source_config_impl", op |-> "discovery.source_config"],
     [reg |-> "linked", attr |-> "pre_snapshot_impl", op |-> "linked.pre_snapshot"],
     [reg |-> "linked", attr |-> "post_snapshot_impl", op |-> "linked.post_snapshot"],
     [reg |-> "linked", attr |-> "start_staging_impl", op |-> "linked.start_staging"],
     [reg |-> "linked", attr |-> "stop_staging_impl", op |-> "linked.stop_staging"],
     [reg |-> "linked", attr |-> "status_impl", op |-> "linked.status"],
     [reg |-> "linked", attr |-> "worker_impl", op |-> "linked.worker"],
     [reg |-> "linked", attr |-> "mount_specification_impl",
      op |-> "linked.mount_specification"],
     [reg |-> "virtual", attr |-> "configure_impl", op |-> "virtual.configure"],
     [reg |-> "virtual", attr |-> "unconfigure_impl", op |-> "virtual.unconfigure"],
     [reg |-> "virtual", attr |-> "reconfigure_impl", op |-> "virtual.reconfigure"],
     [reg |-> "virtual", attr |-> "start_impl", op |-> "virtual.start"],
     [reg |-> "virtual", attr |-> "stop_impl", op |-> "virtual.stop"],
     [reg |-> "virtual", attr |-> "pre_snapshot_impl", op |-> "virtual.pre_snapshot"],
     [reg |-> "virtual", attr |-> "post_snapshot_impl", op |-> "virtual.post_snapshot"],
     [reg |-> "virtual", attr |-> "status_impl", op |-> "virtual.status"],
     [reg |-> "virtual", attr |-> "initialize_impl", op |-> "virtual.initialize"],
     [reg |-> "virtual", attr |-> "mount_specification_impl",
      op |-> "virtual.mount_specification"]}

\* The value an attribute holds.
SlotValue(reg, attr) ==
    IF reg = "discovery" THEN discovery[attr]
    ELSE IF reg = "linked" THEN linked[attr]
    ELSE virtual[attr]

Registered == last.kind = "register"
Dispatched == last.kind = "dispatch"

\* ---- C1 ----------------------------------------------------------------
\* C1: for every attribute of the three registries, if an implementation is
\* already held by the attribute, applying the decorator to a second
\* implementation raises the "already been defined" error and the attribute
\* still holds the first implementation.
C1_SecondRegistrationRejected ==
    [][\A s \in Slots :
         (/\ SlotValue(s.reg, s.attr) # None
          /\ last'.kind = "register"
          /\ last'.op = s.op)
         => (/\ last'.raised = AlreadyDefined
             /\ SlotValue(s.reg, s.attr)' = SlotValue(s.reg, s.attr))]_vars

\* ---- C2 ----------------------------------------------------------------
\* C2: every attribute is None after construction, and an attribute that
\* holds an implementation keeps holding that implementation for ever
\* (never cleared, never rebound), so each attribute changes at most once.
C2_SetOnce ==
    /\ \A s \in Slots : SlotValue(s.reg, s.attr) = None
    /\ [][\A s \in Slots :
            SlotValue(s.reg, s.attr) # None
            => SlotValue(s.reg, s.attr)' = SlotValue(s.reg, s.attr)]_vars

\* The wrappers: the attribute each one reads, whether its operation is
\* required, and (for wrappers answering with an empty result) the name of
\* that result.
W(op, reg, attr, required, empty) ==
    [op |-> op, reg |-> reg, attr |-> attr, required |-> required, empty |-> empty]
Wrappers ==
    {W("discovery.repository", "discovery", "repository_impl", TRUE, ""),
     W("discovery.source_config", "discovery", "source_config_impl", TRUE, ""),
     W("linked.direct_pre_snapshot", "linked", "pre_snapshot_impl", TRUE,
       "DirectPreSnapshotResult"),
     W("linked.direct_post_snapshot", "linked", "post_snapshot_impl", TRUE, ""),
     W("linked.staged_pre_snapshot", "linked", "pre_snapshot_impl", FALSE,
       "StagedPreSnapshotResult"),
     W("linked.staged_post_snapshot", "linked", "post_snapshot_impl", TRUE, ""),
     W("linked.start_staging", "linked", "start_staging_impl", FALSE,
       "StartStagingResult"),
     W("linked.stop_staging", "linked", "stop_staging_impl", FALSE,
       "StopStagingResult"),
     W("linked.status", "linked", "status_impl", FALSE, ""),
     W("linked.worker", "linked", "worker_impl", FALSE, "StagedWorkerResult"),
     W("linked.mount_specification", "linked", "mount_specification_impl", TRUE, ""),
     W("virtual.configure", "virtual", "configure_impl", TRUE, ""),
     W("virtual.unconfigure", "virtual", "unconfigure_impl", FALSE,
       "UnconfigureResult"),
     W("virtual.reconfigure", "virtual", "reconfigure_impl", TRUE, ""),
     W("virtual.start", "virtual", "start_impl", FALSE, "StartResult"),
     W("virtual.stop", "virtual", "stop_impl", FALSE, "StopResult"),
     W("virtual.pre_snapshot", "virtual", "pre_snapshot_impl", FALSE,
       "VirtualPreSnapshotResult"),
     W("virtual.post_snapshot", "virtual", "post_snapshot_impl", TRUE, ""),
     W("virtual.status", "virtual", "status_impl", FALSE, ""),
     W("virtual.initialize", "virtual", "initialize_impl", TRUE,
       "InitializeResult"),
     W("virtual.mount_specification", "virtual", "mount_specification_impl",
       TRUE, "")}

\* The wrapper w has just run (a wrapper changes no attribute, so the
\* attribute it read still has the value it read).
Ran(w) == Dispatched /\ last.op = w.op
Unset(w) == SlotValue(w.reg, w.attr) = None

\* ---- C3 ----------------------------------------------------------------
\* C3: a wrapper of a required operation that runs while its attribute is
\* None raises the "has not been defined" error, returns no response and
\* calls no implementation.
C3_RequiredUnsetFails ==
    \A w \in Wrappers :
        (w.required /\ Ran(w) /\ Unset(w))
        => (/\ last.raised = NotDefined
            /\ last.response = None
            /\ last.calls = <<>>)

\* ---- C4 ----------------------------------------------------------------
\* The wrappers of the operations that default to a no-op.
NoopWrappers == {w \in Wrappers : ~ w.required /\ w.empty # ""}

\* C4: a wrapper of an optional no-op operation (staged pre_snapshot,
\* start_staging, stop_staging, worker; virtual unconfigure, start, stop,
\* pre_snapshot) that runs while its attribute is None raises nothing,
\* calls no implementation and returns the operation's empty result.
C4_OptionalUnsetReturnsEmpty ==
    \A w \in NoopWrappers :
        (Ran(w) /\ Unset(w))
        => (/\ last.raised = None
            /\ last.calls = <<>>
            /\ last.response = EmptyResult(w.empty))

\* An unset optional wrapper answered a request whose payloads do not parse.
C4_Witness ==
    /\ Dispatched
    /\ last.op = "linked.start_staging"
    /\ linked.start_staging_impl = None
    /\ last.request.repository.parameters = Malformed
    /\ last.response = EmptyResult("StartStagingResult")

\* ---- C5 ----------------------------------------------------------------
ActiveResponse == [return_value |-> [status |-> "ACTIVE"]]

\* C5: the linked status wrapper and the virtual status wrapper, run while
\* their own status_impl is None, raise nothing and answer status ACTIVE,
\* whatever the other registry's status_impl holds.
C5_StatusDefaultActive ==
    /\ (Dispatched /\ last.op = "linked.status" /\ linked.status_impl = None)
       => (last.raised = None /\ last.calls = <<>> /\ last.response = ActiveResponse)
    /\ (Dispatched /\ last.op = "virtual.status" /\ virtual.status_impl = None)
       => (last.raised = None /\ last.calls = <<>> /\ last.response = ActiveResponse)

\* The linked default was returned while virtual.status_impl was bound.
C5_Witness ==
    /\ Dispatched
    /\ last.op = "linked.status"
    /\ linked.status_impl = None
    /\ virtual.status_impl # None
    /\ last.response = ActiveResponse

\* ---- C6 ----------------------------------------------------------------
\* C6: linked.pre_snapshot_impl is read by two wrappers.  While it is None
\* the direct wrapper raises "has not been defined" and the staged wrapper
\* returns the empty result; once it holds an implementation, both wrappers
\* (given a request that unmarshals and an implementation that returns)
\* call that implementation exactly once and return the empty result.
C6_PreSnapshotTwoEntryPoints ==
    /\ (Dispatched /\ last.op = "linked.direct_pre_snapshot"
          /\ linked.pre_snapshot_impl = None)
       => (last.raised = NotDefined /\ last.response = None)
    /\ (Dispatched /\ last.op = "linked.staged_pre_snapshot"
          /\ linked.pre_snapshot_impl = None)
       => (last.raised = None /\ last.calls = <<>>
           /\ last.response = EmptyResult("StagedPreSnapshotResult"))
    /\ \A w \in {x \in Wrappers : x.op \in {"linked.direct_pre_snapshot",
                                           "linked.staged_pre_snapshot"}} :
         (Ran(w) /\ linked.pre_snapshot_impl # None
            /\ last.raised \notin {ValueError, CallbackError})
         => (/\ Len(last.calls) = 1
             /\ last.calls[1].impl = linked.pre_snapshot_impl
             /\ last.raised = None
             /\ last.response = EmptyResult(w.empty))

\* ---- C7 ----------------------------------------------------------------
\* The linked / virtual mount_specification wrapper has just run and its
\* implementation was called once and returned a mount specification.
ReturnedMountSpec(op) ==
    /\ Dispatched
    /\ last.op = op
    /\ Len(last.calls) = 1
    /\ ~ last.calls[1].result.raise
    /\ last.calls[1].result.value # None
\* The mounts of that specification.
ReturnedMounts == last.calls[1].result.value.mounts

StagedMountMatches ==
    /\ last.raised = None
    /\ last.response # None
    /\ last.response.return_value.staged_mount =
         [mount_path |-> ReturnedMounts[1].mount_path,
          remote_environment |-> ReturnedMounts[1].remote_environment]

\* C8 as claimed: whenever the implementation returns exactly one mount,
\* whatever its shared path, the linked wrapper succeeds and the response's
\* staged mount has the mount_path and remote_environment of that mount.
C8_SingleMountAlwaysSucceeds ==
    (ReturnedMountSpec("linked.mount_specification") /\ Len(ReturnedMounts) = 1)
    => StagedMountMatches

\* C8 amended: whenever the implementation returns exactly one mount whose
\* shared path is not set, the linked wrapper succeeds and the response's
\* staged mount has the mount_path and remote_environment of that mount.
C8_SingleMountWithoutSharedPath ==
    (ReturnedMountSpec("linked.mount_specification") /\ Len(ReturnedMounts) = 1
       /\ ~ BoolStr(ReturnedMounts[1].shared_path))
    => StagedMountMatches

\* One mount on the second environment was returned and marshalled.
C8_Witness ==
    /\ ReturnedMountSpec("linked.mount_specification")
    /\ ReturnedMounts = <<MountB>>
    /\ last.response # None
    /\ last.response.return_value.staged_mount.mount_path = "/mnt/b"

\* ---- C9 ----------------------------------------------------------------
\* The response entry carries every field of the returned mount.
MountEntryMatches(entry, mount) ==
    /\ entry.remote_environment.name = mount.remote_environment.name
    /\ entry.remote_environment.reference = mount.remote_environment.reference
    /\ entry.remote_environment.host.name = mount.remote_environment.host.name
    /\ entry.remote_environment.host.reference =
         mount.remote_environment.host.reference
    /\ entry.remote_environment.host.binary_path =
         mount.remote_environment.host.binary_path
    /\ entry.remote_environment.host.scratch_path =
         mount.remote_environment.host.scratch_path
    /\ entry.mount_path = mount.mount_path

\* C9: when the implementation called by the virtual mount_specification
\* wrapper returns n >= 1 mounts, the wrapper succeeds and the response has
\* exactly n mount entries, the i-th built from the i-th returned mount.
C9_VirtualMountsInOrder ==
    (ReturnedMountSpec("virtual.mount_specification") /\ Len(ReturnedMounts) >= 1)
    => (/\ last.raised = None
        /\ last.response # None
        /\ Len(last.response.return_value.mounts) = Len(ReturnedMounts)
        /\ \A i \in 1..Len(ReturnedMounts) :
             MountEntryMatches(last.response.return_value.mounts[i],
                               ReturnedMounts[i]))

\* Three different mounts were returned and answered.
C9_Witness ==
    /\ ReturnedMountSpec("virtual.mount_specification")
    /\ ReturnedMounts = <<MountA, MountB, MountShared>>
    /\ last.response # None
    /\ Len(last.response.return_value.mounts) = 3

\* ---- C10 ---------------------------------------------------------------
\* C10: every response of the virtual mount_specification wrapper has at
\* least one mount entry, and a specification with zero mounts makes the
\* wrapper raise a mount cardinality error instead of returning a response.
C10_VirtualAtLeastOneMount ==
    /\ (Dispatched /\ last.op = "virtual.mount_specification"
          /\ last.response # None)
       => Len(last.response.return_value.mounts) >= 1
    /\ (ReturnedMountSpec("virtual.mount_specification") /\ Len(ReturnedMounts) = 0)
       => (last.raised = ExactlyOneMount /\ last.response = None)

\* ---- helpers of C11 .. C20 -----------------------------------------------
\* The dict a JSON text of a request or of a response denotes.
Parsed(text) == json_loads(text).value

\* The attribute a decorator named op assigns.
SlotOf(op) == CHOOSE s \in Slots : s.op = op

\* The wrapper that ran last is one of ops and called an implementation
\* once, which returned a value other than None.
CalledAndReturned(ops) ==
    /\ Dispatched
    /\ last.op \in ops
    /\ Len(last.calls) = 1
    /\ ~ last.calls[1].result.raise
    /\ last.calls[1].result.value # None
Returned == last.calls[1].result.value
Kwargs == last.calls[1].kwargs

\* ---- C11 ---------------------------------------------------------------
\* C11: with an implementation held by virtual.configure_impl, the
\* configure wrapper given a request whose payloads parse calls that
\* implementation exactly once, with exactly the keyword arguments
\* virtual_source, repository and snapshot; virtual_source carries the
\* request's guid and connection and the three definitions are the parsed
\* payloads; when the implementation returns a definition, the response's
\* source_config payload parses back to that definition.
C11_ConfigureEndToEnd ==
    (/\ Dispatched
     /\ last.op = "virtual.configure"
     /\ virtual.configure_impl # None
     /\ RequestParses(last.request))
    => (/\ Len(last.calls) = 1
        /\ last.calls[1].impl = virtual.configure_impl
        /\ DOMAIN Kwargs = {"virtual_source", "repository", "snapshot"}
        /\ Kwargs.virtual_source.guid = last.request.virtual_source.guid
        /\ Kwargs.virtual_source.connection = last.request.virtual_source.connection
        /\ to_dict(Kwargs.virtual_source.parameters) =
             Parsed(last.request.virtual_source.parameters)
        /\ to_dict(Kwargs.repository) = Parsed(last.request.repository.parameters)
        /\ to_dict(Kwargs.snapshot) = Parsed(last.request.snapshot.parameters)
        /\ CalledAndReturned({"virtual.configure"})
           => (/\ last.raised = None
               /\ Parsed(last.response.return_value.source_config.parameters) =
                    to_dict(Returned)))

\* ---- C12 ---------------------------------------------------------------
\* C12: a decorator call that raises nothing returns the implementation it
\* was given, and the attribute of that decorator then holds that same
\* implementation; for every attribute of the three registries.
C12_RegistrationReturnsCallback ==
    (Registered /\ last.raised = None)
    => (/\ last.response = last.request
        /\ SlotValue(SlotOf(last.op).reg, SlotOf(last.op).attr) = last.request)

\* g was registered as virtual.configure and handed back.
C12_Witness ==
    /\ Registered
    /\ last.op = "virtual.configure"
    /\ last.raised = None
    /\ last.request = g
    /\ last.response = g
    /\ virtual.configure_impl = g

WrapperOutcome(op, request, result) ==
    CASE op = "discovery.repository" ->
           Discovery_internal_repository(discovery, request, result)
      [] op = "discovery.source_config" ->
           Discovery_internal_source_config(discovery, request, result)
      [] op = "linked.direct_pre_snapshot" ->
           Linked_internal_direct_pre_snapshot(linked, request, result)
      [] op = "linked.direct_post_snapshot" ->
           Linked_internal_direct_post_snapshot(linked, request, result)
      [] op = "linked.staged_pre_snapshot" ->
           Linked_internal_staged_pre_snapshot(linked, request, result)
      [] op = "linked.staged_post_snapshot" ->
           Linked_internal_staged_post_snapshot(linked, request, result)
      [] op = "linked.start_staging" ->
           Linked_internal_start_staging(linked, request, result)
      [] op = "linked.stop_staging" ->
           Linked_internal_stop_staging(linked, request, result)
      [] op = "linked.status" ->
           Linked_internal_status(linked, request, result)
      [] op = "linked.worker" ->
           Linked_internal_worker(linked, request, result)
      [] op = "linked.mount_specification" ->
           Linked_internal_mount_specification(linked, request, result)
      [] op = "virtual.configure" ->
           Virtual_internal_configure(virtual, request, result)
      [] op = "virtual.unconfigure" ->
           Virtual_internal_unconfigure(virtual, request, result)
      [] op = "virtual.reconfigure" ->
           Virtual_internal_reconfigure(virtual, request, result)
      [] op = "virtual.start" ->
           Virtual_internal_start(virtual, request, result)
      [] op = "virtual.stop" ->
           Virtual_internal_stop(virtual, request, result)
      [] op = "virtual.pre_snapshot" ->
           Virtual_internal_pre_snapshot(virtual, request, result)
      [] op = "virtual.post_snapshot" ->
           Virtual_internal_post_snapshot(virtual, request, result)
      [] op = "virtual.status" ->
           Virtual_internal_status(virtual, request, result)
      [] op = "virtual.initialize" ->
           Virtual_internal_initialize(virtual, request, result)
      [] op = "virtual.mount_specification" ->
           Virtual_internal_mount_specification(virtual, request, result)

\* What the implementation did in an outcome (Raises stands for an
\* implementation that was not called).
ResultOf(outcome) ==
    IF outcome.calls = <<>> THEN Raises ELSE outcome.calls[1].result

C15_ConcurrentDispatchesIndependent ==
    /\ [](\A t \in Threads :
            threads[t].pc = "done"
            => LET thread == threads[t]
               IN /\ \A i \in 1..Len(thread.outcome.calls) :
                       /\ thread.outcome.calls[i].impl = slot_impl(thread.op)
                       /\ thread.outcome.calls[i].kwargs =
                            unmarshal(thread.op, thread.request).kwargs
                  /\ thread.outcome =
                       WrapperOutcome(thread.op, thread.request,
                                      ResultOf(thread.outcome)))
    /\ [][UNCHANGED <<discovery, linked, virtual>>]_vars

\* Two wrappers of the same operation are in flight for two entities, one
\* has called its implementation and the other has ended.
C15_Witness ==
    /\ threads["t1"].pc = "done"
    /\ threads["t2"].pc = "returned"
    /\ threads["t1"].op = "virtual.start"
    /\ threads["t2"].op = "virtual.start"
    /\ threads["t1"].outcome.response = EmptyResult("StartResult")
    /\ threads["t1"].outcome.calls[1].kwargs.virtual_source.guid = "guid-1"
    /\ threads["t2"].calls[1].kwargs.virtual_source.guid = "guid-2"

LinkedDirectOps == {"linked.direct_pre_snapshot", "linked.direct_post_snapshot"}
LinkedStagedOps ==
    {"linked.staged_pre_snapshot", "linked.staged_post_snapshot",
     "linked.start_staging", "linked.stop_staging", "linked.status",
     "linked.worker"}
LinkedOps == LinkedDirectOps \cup LinkedStagedOps \cup {"linked.mount_specification"}

\* A linked wrapper has just called an implementation.
LinkedCall == Dispatched /\ last.op \in LinkedOps /\ Len(last.calls) = 1

\* C17 as claimed: every implementation called by a linked wrapper is
\* called with exactly the keyword arguments source, repository and
\* source_config (source and repository for mount_specification).
C17_LinkingKeywordSource ==
    LinkedCall
    => DOMAIN Kwargs = IF last.op = "linked.mount_specification"
                       THEN {"source", "repository"}
                       ELSE {"source", "repository", "source_config"}

\* C17 amended: the implementation called by a direct wrapper gets exactly
\* direct_source, repository and source_config; the one called by a staged
\* wrapper gets exactly staged_source, repository and source_config, and
\* the one called by the mount_specification wrapper exactly staged_source
\* and repository; the source carries the request's guid and connection.
C17_LinkingKeywords ==
    LinkedCall
    => (/\ last.op \in LinkedDirectOps
           => (/\ DOMAIN Kwargs = {"direct_source", "repository", "source_config"}
               /\ Kwargs.direct_source.cls = "DirectSource"
               /\ Kwargs.direct_source.guid =
                    last.request.direct_source.linked_source.guid
               /\ Kwargs.direct_source.connection =
                    last.request.direct_source.connection)
        /\ last.op \in LinkedStagedOps
           => DOMAIN Kwargs = {"staged_source", "repository", "source_config"}
        /\ last.op = "linked.mount_specification"
           => DOMAIN Kwargs = {"staged_source", "repository"}
        /\ last.op \notin LinkedDirectOps
           => (/\ Kwargs.staged_source.cls = "StagedSource"
               /\ Kwargs.staged_source.guid =
                    last.request.staged_source.linked_source.guid
               /\ Kwargs.staged_source.connection =
                    last.request.staged_source.connection))

\* The implementation of staged post_snapshot was called for the second
\* entity.
C17_Witness ==
    /\ LinkedCall
    /\ last.op = "linked.staged_post_snapshot"
    /\ "staged_source" \in DOMAIN Kwargs
    /\ Kwargs.staged_source.guid = "guid-2"

\* ---- C18 ---------------------------------------------------------------
\* A discovery wrapper has just called an implementation.
DiscoveryCall(op) == Dispatched /\ last.op = op /\ Len(last.calls) = 1

\* The entries answer the returned list: same length, same order, each
\* payload parsing back to the definition at the same position.
EntriesMatch(entries, definitions) ==
    /\ Len(entries) = Len(definitions)
    /\ \A i \in 1..Len(definitions) :
         Parsed(entries[i].parameters) = to_dict(definitions[i])

\* C18: the implementation called by the repository wrapper gets exactly
\* the request's source_connection, the one called by the source_config
\* wrapper that and the repository definition parsed from the request;
\* when the implementation returns a list of k >= 0 definitions the wrapper
\* raises nothing and the response has exactly k entries, the i-th being
\* the serialization of the i-th returned definition.
C18_DiscoveryListMarshalling ==
    /\ DiscoveryCall("discovery.repository")
       => (/\ Kwargs = [source_connection |-> last.request.source_connection]
           /\ ~ last.calls[1].result.raise
              => (/\ last.raised = None
                  /\ EntriesMatch(last.response.return_value.repositories,
                                  last.calls[1].result.value)))
    /\ DiscoveryCall("discovery.source_config")
       => (/\ DOMAIN Kwargs = {"source_connection", "repository"}
           /\ Kwargs.source_connection = last.request.source_connection
           /\ Kwargs.repository.cls = "RepositoryDefinition"
           /\ to_dict(Kwargs.repository) = Parsed(last.request.repository.parameters)
           /\ ~ last.calls[1].result.raise
              => (/\ last.raised = None
                  /\ EntriesMatch(last.response.return_value.source_configs,
                                  last.calls[1].result.value)))

\* Two different definitions were returned and answered in their order.
C18_Witness ==
    /\ DiscoveryCall("discovery.source_config")
    /\ last.calls[1].result =
         Ret(<<from_dict("SourceConfigDefinition", [name |-> "repo"]),
               from_dict("SourceConfigDefinition", [path |-> "/cfg"])>>)
    /\ last.response # None
    /\ Len(last.response.return_value.source_configs) = 2

\* ---- C19 ---------------------------------------------------------------
PostSnapshotOps ==
    {"linked.direct_post_snapshot", "linked.staged_post_snapshot",
     "virtual.post_snapshot"}

\* C19: when the implementation called by the direct, staged or virtual
\* post_snapshot wrapper returns a snapshot definition, the wrapper raises
\* nothing and the response's snapshot payload is the serialization of
\* that very definition.
C19_PostSnapshotMarshalling ==
    CalledAndReturned(PostSnapshotOps)
    => (/\ last.raised = None
        /\ last.response # None
        /\ Parsed(last.response.return_value.snapshot.parameters) =
             to_dict(Returned))

\* The virtual wrapper answered with the returned definition while the
\* request carried other payloads.
C19_Witness ==
    /\ CalledAndReturned({"virtual.post_snapshot"})
    /\ to_dict(Returned) = [version |-> "1.0"]
    /\ last.response # None
    /\ \A t \in Payloads(last.request) : Parsed(t) # [version |-> "1.0"]

\* ---- C20 ---------------------------------------------------------------
MountSpecOps == {"linked.mount_specification", "virtual.mount_specification"}

\* The mount specification with an ownership specification set.
WithOwnership(mount_spec) ==
    [mount_spec EXCEPT !.ownership_specification = [uid |-> 1001, gid |-> 2002]]

\* The wrapper named op accepts mount_spec.
Accepts(op, mount_spec) ==
    IF op = "linked.mount_specification"
    THEN StagedMountSpecResponse(mount_spec).ok
    ELSE VirtualMountSpecResponse(mount_spec).ok

\* C20: in both mount_specification wrappers, a response carries an
\* ownership spec exactly when the returned specification has one, with
\* the same uid and gid; and a specification without ownership spec is
\* only rejected when it is rejected with an ownership spec as well.
C20_OwnershipSpecOptional ==
    \A op \in MountSpecOps :
        ReturnedMountSpec(op)
        => LET mount_spec == last.calls[1].result.value
               ownership == mount_spec.ownership_specification
           IN /\ last.response # None
                 => IF ownership = None
                    THEN last.response.return_value.ownership_spec = None
                    ELSE /\ last.response.return_value.ownership_spec # None
                         /\ last.response.return_value.ownership_spec.uid =
                              ownership.uid
                         /\ last.response.return_value.ownership_spec.gid =
                              ownership.gid
              /\ (ownership = None /\ last.raised # None)
                 => ~ Accepts(op, WithOwnership(mount_spec))

\* The linked wrapper answered a single mount with an ownership spec by a
\* response carrying its uid and gid.
C20_Witness ==
    /\ ReturnedMountSpec("linked.mount_specification")
    /\ last.response # None
    /\ last.calls[1].result.value.ownership_specification # None
    /\ last.response.return_value.ownership_spec = [uid |-> 1001, gid |-> 2002]

\* ---- C21 ---------------------------------------------------------------
\* The wrapper named op.
WrapperOf(op) == CHOOSE w \in Wrappers : w.op = op

\* The registries other than reg are left as they are by the step.
OthersUnchanged(reg) ==
    /\ reg # "discovery" => discovery' = discovery
    /\ reg # "linked" => linked' = linked
    /\ reg # "virtual" => virtual' = virtual

\* C21: the three registries made by Plugin.__init__ stay the plugin's
\* registries (no attribute that holds an implementation is ever found
\* empty again), and a decorator or a wrapper of one registry leaves every
\* attribute of the other two registries unchanged, also the attributes of
\* the same name (pre_snapshot, post_snapshot, status,
\* mount_specification).
C21_FacetsIndependent ==
    [][/\ last'.kind = "register" => OthersUnchanged(SlotOf(last'.op).reg)
       /\ last'.kind = "dispatch" => OthersUnchanged(WrapperOf(last'.op).reg)
       /\ \A s \in Slots :
            SlotValue(s.reg, s.attr) # None => SlotValue(s.reg, s.attr)' # None]_vars

\* linked.pre_snapshot was registered and virtual.pre_snapshot is still
\* unset.
C21_Witness ==
    /\ Registered
    /\ last.op = "linked.pre_snapshot"
    /\ last.raised = None
    /\ linked.pre_snapshot_impl = f
    /\ virtual.pre_snapshot_impl = None

\* ---- C22 ---------------------------------------------------------------
\* C22: a wrapper of a required operation that runs while its attribute is
\* None raises the "has not been defined" error for every request, also
\* for a request whose payload does not parse: it never raises the error of
\* the unmarshalling instead.
C22_UnsetCheckBeforeUnmarshal ==
    \A w \in Wrappers :
        (w.required /\ Ran(w) /\ Unset(w))
        => (last.raised # ValueError /\ last.raised = NotDefined)

\* ---- C23 ---------------------------------------------------------------
OptionalWrappers == {w \in Wrappers : ~ w.required}

\* C23: a wrapper of an operation that is not required (the eight no-op
\* ones and the two status ones) that runs while its attribute is None
\* raises nothing, calls nothing and returns its default response for every
\* request, also one whose payloads do not parse; such a wrapper raises the
\* error of the unmarshalling only when its attribute holds an
\* implementation.
C23_OptionalUnsetNeverUnmarshals ==
    \A w \in OptionalWrappers :
        /\ (Ran(w) /\ Unset(w))
           => (/\ last.raised = None
               /\ last.calls = <<>>
               /\ last.response = IF w.empty # "" THEN EmptyResult(w.empty)
                                  ELSE ActiveResponse)
        /\ (Ran(w) /\ last.raised = ValueError) => ~ Unset(w)

\* The virtual status wrapper, unset, answered a request whose payloads do
\* not parse.
C23_Witness ==
    /\ Dispatched
    /\ last.op = "virtual.status"
    /\ virtual.status_impl = None
    /\ ~ RequestParses(last.request)
    /\ last.raised = None
    /\ last.response = ActiveResponse

\* ---- C24 ---------------------------------------------------------------
\* The wrappers of the operations without a result.
NoResultWrappers == {w \in Wrappers : w.empty # ""}

\* The wrapper w ran on a request that parses while its attribute held an
\* implementation.
RanBound(w) == Ran(w) /\ ~ Unset(w) /\ RequestParses(last.request)

\* C24: a wrapper of an operation without a result whose attribute holds an
\* implementation calls that implementation exactly once and, when it
\* returns, answers with the operation's empty result whatever was
\* returned (the response an unset optional wrapper gives).
C24_NoResultOperations ==
    \A w \in NoResultWrappers :
        RanBound(w)
        => (/\ Len(last.calls) = 1
            /\ last.calls[1].impl = SlotValue(w.reg, w.attr)
            /\ ~ last.calls[1].result.raise
               => (last.raised = None /\ last.response = EmptyResult(w.empty)))

\* ---- C25 ---------------------------------------------------------------
StatusWrappers == {w \in Wrappers : w.op \in {"linked.status", "virtual.status"}}

\* C25: a status wrapper whose attribute holds an implementation calls it
\* exactly once and, when it returns a status, answers with the value of
\* that status; the ACTIVE default is only given while the attribute is
\* None.
C25_StatusWithCallback ==
    \A w \in StatusWrappers :
        /\ RanBound(w)
           => (/\ Len(last.calls) = 1
               /\ last.calls[1].impl = SlotValue(w.reg, w.attr)
               /\ (~ last.calls[1].result.raise
                   /\ last.calls[1].result.value # None)
                  => (/\ last.raised = None
                      /\ last.response.return_value.status =
                           last.calls[1].result.value.value))
        /\ (Ran(w) /\ last.calls = <<>> /\ last.response = ActiveResponse)
           => Unset(w)

\* ---- C28 ---------------------------------------------------------------
\* C28: a decorator applied while its attribute is None raises nothing and
\* binds the implementation, whatever wrappers ran before; and from then on
\* every run of a wrapper reading that attribute (on a request that
\* parses) calls the implementation the attribute holds.
C28_LateRegistration ==
    /\ [][\A s \in Slots :
            (/\ SlotValue(s.reg, s.attr) = None
             /\ last'.kind = "register"
             /\ last'.op = s.op)
            => (/\ last'.raised = None
                /\ SlotValue(s.reg, s.attr)' = last'.request)]_vars
    /\ [](\A w \in Wrappers :
            RanBound(w)
            => (/\ Len(last.calls) = 1
                /\ last.calls[1].impl = SlotValue(w.reg, w.attr)))

\* ---- C30 ---------------------------------------------------------------
\* C30: for every attribute that holds any implementation (also one that
\* tests false), the decorator's guard, the guard of the wrappers of
\* required operations and the guard of the other wrappers all take the
\* attribute as bound: a second registration raises "already been
\* defined", and every wrapper reading the attribute calls the
\* implementation.
C30_GuardsAgree ==
    /\ [][\A s \in Slots :
            (/\ SlotValue(s.reg, s.attr) # None
             /\ last'.kind = "register"
             /\ last'.op = s.op)
            => last'.raised = AlreadyDefined]_vars
    /\ [](\A op \in AllOps :
            slot_impl(op) # None => (slot_bound(op) /\ Bool(slot_impl(op))))
    /\ [](\A w \in Wrappers : RanBound(w) => last.calls # <<>>)

\* ------------------------------------------------------------------------
\* Decorators and wrappers running on several threads
\* ------------------------------------------------------------------------
\* Nothing in the module keeps a decorator from running on one thread while
\* another decorator or a wrapper runs on another.  operation() returns the
\* decorator; the decorator tests the attribute and, in a later statement,
\* assigns it.  The attributes are independent of each other, so the
\* threads are followed on one attribute at a time: the first attribute a
\* thread touches is the one every thread works on.

\* The thread is inside operation()(impl).
Registering(thread) ==
    \/ thread.pc \in {"decorator", "assigning"}
    \/ thread.pc = "done" /\ thread.outcome.kind = "register"

\* The attribute the thread reads or assigns.
thread_slot(thread) ==
    IF Registering(thread)
    THEN <<SlotOf(thread.op).reg, SlotOf(thread.op).attr>>
    ELSE <<WrapperOf(thread.op).reg, WrapperOf(thread.op).attr>>

\* Thread t may start on the attribute s: no other attribute holds an
\* implementation and no other thread is running on another attribute.
Contended(s, t) ==
    /\ \A o \in Slots \ {s} : SlotValue(o.reg, o.attr) = None
    /\ \A u \in Threads \ {t} :
         threads[u].pc # "idle" => thread_slot(threads[u]) = <<s.reg, s.attr>>

\* The wrappers reading the attribute s.
WrappersOf(s) == {w.op : w \in {x \in Wrappers : x.reg = s.reg /\ x.attr = s.attr}}

\* def <operation>(self): ... return <operation>_decorator
operation_decorator(t) ==
    /\ threads[t].pc = "idle"
    /\ \E s \in Slots :
         /\ Contended(s, t)
         /\ Step(t, [ThreadIdle EXCEPT !.pc = "decorator", !.op = s.op])

\* The runtime calls a wrapper on thread t while decorators may be
\* running.
early_wrapper_enter(t) ==
    \E s \in Slots : Contended(s, t) /\ enter(t, WrappersOf(s))

\* if self.<operation>_impl: raise RuntimeError("... already been defined")
decorator_check(t) ==
    LET thread == threads[t]
        s == SlotOf(thread.op)
    IN /\ thread.pc = "decorator"
       /\ \E impl \in Callbacks :
            IF Bool(SlotValue(s.reg, s.attr))
            THEN Step(t, Done([thread EXCEPT !.request = impl],
                              Outcome("register", thread.op, impl, <<>>,
                                      AlreadyDefined, None)))
            ELSE Step(t, [thread EXCEPT !.pc = "assigning", !.request = impl])

\* The registries with the attribute s holding impl.
assigned(s, impl) ==
    [discovery |-> IF s.reg = "discovery"
                   THEN [discovery EXCEPT ![s.attr] = impl] ELSE discovery,
     linked |-> IF s.reg = "linked"
                THEN [linked EXCEPT ![s.attr] = impl] ELSE linked,
     virtual |-> IF s.reg = "virtual"
                 THEN [virtual EXCEPT ![s.attr] = impl] ELSE virtual]

\* decorator_assign assigning only an attribute that is still None (test
\* and assignment as one step).
decorator_assign_TestAndSet(t) ==
    LET thread == threads[t]
        s == SlotOf(thread.op)
        free == SlotValue(s.reg, s.attr) = None
        regs == IF free THEN assigned(s, thread.request)
                ELSE assigned(s, SlotValue(s.reg, s.attr))
    IN /\ thread.pc = "assigning"
       /\ discovery' = regs.discovery
       /\ linked' = regs.linked
       /\ virtual' = regs.virtual
       /\ threads' = [threads EXCEPT ![t] =
              Done(thread, Outcome("register", thread.op, thread.request, <<>>,
                                   IF free THEN None ELSE AlreadyDefined,
                                   IF free THEN thread.request ELSE None))]
       /\ UNCHANGED last

\* self.<operation>_impl = <operation>_impl; return <operation>_impl
decorator_assign(t) ==
    LET thread == threads[t]
        regs == assigned(SlotOf(thread.op), thread.request)
    IN /\ thread.pc = "assigning"
       /\ discovery' = regs.discovery
       /\ linked' = regs.linked
       /\ virtual' = regs.virtual
       /\ threads' = [threads EXCEPT ![t] =
              Done(thread, Outcome("register", thread.op, thread.request, <<>>,
                                   None, thread.request))]
       /\ UNCHANGED last

RaceNext ==
    \E t \in Threads :
        \/ operation_decorator(t)
        \/ decorator_check(t)
        \/ decorator_assign(t)
        \/ early_wrapper_enter(t)
        \/ wrapper_unmarshal(t)
        \/ wrapper_check(t)
        \/ wrapper_call(t)
        \/ wrapper_marshal(t)
        \/ wrapper_return(t)

RaceSpec == Init /\ [][RaceNext]_vars

\* A thread whose decorator call has ended.
Applied(thread) == thread.pc = "done" /\ thread.outcome.kind = "register"

\* A thread whose wrapper has ended.
Answered(thread) == thread.pc = "done" /\ thread.outcome.kind = "dispatch"

\* The value held by the attribute a decorator thread works on.
slot_of(thread) == SlotValue(SlotOf(thread.op).reg, SlotOf(thread.op).attr)

\* ---- C26 ---------------------------------------------------------------
\* C26 (as stated): of two decorator calls with different implementations
\* (each testing true) for the same attribute, running on two threads, at
\* most one returns; the other raises "already been defined".
C26_SingleRegistration ==
    \A t, u \in Threads :
        (/\ t # u
         /\ Applied(threads[t]) /\ Applied(threads[u])
         /\ threads[t].request # threads[u].request
         /\ Bool(threads[t].request) /\ Bool(threads[u].request))
        => ~ (threads[t].outcome.raised = None /\ threads[u].outcome.raised = None)

\* C26 (amended): the test and the assignment of a decorator are two steps
\* with nothing between them kept from other threads.  The test leaves the
\* attribute as it is and raises "already been defined" exactly when the
\* attribute tests true at that moment; otherwise the decorator goes on,
\* and its assignment then always stores its implementation and returns
\* it, also when another thread assigned the attribute after the test (the
\* attribute keeps the implementation assigned last).  While the attribute
\* is None no decorator call for it has raised, so the first of two
\* racing calls to test always goes on to return.
C26_UnguardedRegistration ==
    /\ [][\A t \in Threads :
            LET thread == threads[t]
                after == threads'[t]
            IN /\ (thread.pc = "decorator" /\ after # thread)
                  => (/\ slot_of(thread)' = slot_of(thread)
                      /\ IF Bool(slot_of(thread))
                         THEN /\ after.pc = "done"
                              /\ after.outcome.raised = AlreadyDefined
                         ELSE after.pc = "assigning")
               /\ (thread.pc = "assigning" /\ after # thread)
                  => (/\ slot_of(thread)' = thread.request
                      /\ after.pc = "done"
                      /\ after.outcome.raised = None
                      /\ after.outcome.response = thread.request)]_vars
    /\ [](\A t \in Threads :
            (Applied(threads[t]) /\ threads[t].outcome.raised = AlreadyDefined)
            => slot_of(threads[t]) # None)

\* Both threads registered for the same attribute, t1 the implementation f
\* and t2 the implementation g, and both calls returned; the attribute
\* holds f, assigned after g.
C26_Witness ==
    /\ Applied(threads["t1"]) /\ Applied(threads["t2"])
    /\ threads["t1"].request = f /\ threads["t2"].request = g
    /\ threads["t1"].outcome.response = f /\ threads["t2"].outcome.response = g
    /\ slot_of(threads["t1"]) = f

C29_CheckAtApplication ==
    [][\A t \in Threads :
         LET thread == threads[t]
             after == threads'[t]
         IN /\ (thread.pc = "idle" /\ after.pc = "decorator")
               => (discovery' = discovery /\ linked' = linked /\ virtual' = virtual)
            /\ (thread.pc = "decorator" /\ after # thread
                /\ slot_of(thread) # None)
               => (/\ after.pc = "done"
                   /\ after.outcome.raised = AlreadyDefined
                   /\ slot_of(thread)' = slot_of(thread))]_vars

====
